---- MODULE Spec2Model ----
(***************************************************************************)
(* A model of the webmux backend (backend-rust/src): the UTF-8 stream      *)
(* decoder, the chat-log tailer, the PTY reader and the per-client         *)
(* connection machinery (registry, dispatcher, writer, PTY and tailer      *)
(* ownership).  Each part has its own specification over its own group of  *)
(* variables; the variables of the other parts stay at their idle value.   *)
(***************************************************************************)
EXTENDS Integers, Sequences, FiniteSets, TLC

VARIABLES
    \* ---- Utf8StreamDecoder (terminal_buffer.rs)
    decB,          \* the whole byte sequence B under test
    decRest,       \* the bytes of B not yet fed to the decoder
    incomplete,    \* Utf8StreamDecoder.incomplete
    decOut,        \* concatenation of the texts returned so far
    decChunks      \* number of decode_chunk calls made so far

VARIABLES
    \* ---- log tailer (chat_log/watcher.rs)
    file,          \* the bytes of the watched log file
    tailPc,        \* watch_log_file: "open", "setup" (history sent), "watching"
    innerPc,       \* the spawned burst task: "recv" or "read" (drained, about to read)
    pos,           \* the saved offset (start_pos, then pos)
    notify_rx,     \* number of pending modification notifications
    event_tx,      \* the ChatLogEvents emitted so far, in order
    parsed,        \* every line handed to parse_line so far, in order
    logLine,       \* a deserialized log line handed to a dialect's parse_line
    logMsg,        \* what that parse_line returned for it
    resContent,    \* the content of a tool result handed to a summary function
    resSummary,    \* the summary returned for it
    procs,         \* the process tree under a pane handed to detect_log_file
    located,       \* what detect_log_file returned for it
    watchLen       \* the length the file had when the OS watch was registered

VARIABLES
    \* ---- PTY reader task (websocket/mod.rs, attach_to_session)
    rdPc,               \* "read" (in or before reader.read) or "done"
    pending_output,     \* the decoded text not yet flushed
    elapsed,            \* last_send.elapsed() in ms, saturated at MaxElapsed
    consecutive_errors,
    bytes_since_pause,
    rdReads,            \* number of successful reads so far
    rdTxOpen,           \* whether the client's queue still accepts sends
    rdSent              \* the messages the reader enqueued, in order

VARIABLES
    \* ---- client connections (websocket/mod.rs)
    clients,         \* ClientManager.clients: the ids that have a send handle registered
    connPc,          \* per client: where handle_socket stands
    cur,             \* per client: the command whose handler is in progress
    inbound,         \* per client: frames the peer has sent, not yet received
    startLog,        \* per client: arrival numbers of the commands whose handler started
    finished,        \* per client: number of handlers that have returned
    current_session, \* WsState.current_session
    current_pty,     \* WsState.current_pty: index of the PtySession held, 0 for None
    child,           \* per client: state of the child of each PtySession created
    reader,          \* per client: state of the reader task of each PtySession
    chat_log_handle, \* WsState.chat_log_handle: index of the tailer task held, 0 for None
    task,            \* per client: the tailer tasks spawned by WatchChatLog
    unwatched,       \* per client: tasks aborted by UnwatchChatLog, with enqN and sentN then
    outq,            \* per client: the outbound queue (message_tx -> rx)
    writer,          \* per client: the writer task: "none", "running", "failed", "closed"
    lastSent,        \* per client: the frame written to the socket last
    sentN,           \* per client: number of frames written to the socket
    enqN,            \* per client: number of frames enqueued so far
    nFrames,         \* inbound frames sent by all peers so far
    nOut,            \* Output messages produced by all readers so far
    nEvents,         \* file events produced for all tailers so far
    nBcast,          \* messages the monitor has broadcast so far
    call,            \* the calls of broadcast / broadcast_binary made so far, in order
    bcLog,           \* per client: the calls whose payload was enqueued, in order
    iterOrder,       \* the order in which the registry map is iterated
    tmuxSessions,    \* the names of the tmux sessions that exist
    cmdRes           \* per client: what each adapter command handled came to

decVars == <<decB, decRest, incomplete, decOut, decChunks>>
tailVars == <<file, tailPc, innerPc, pos, notify_rx, event_tx, parsed, logLine, logMsg,
              resContent, resSummary, procs, located, watchLen>>

rdVars == <<rdPc, pending_output, elapsed, consecutive_errors, bytes_since_pause,
            rdReads, rdTxOpen, rdSent>>

dispVars == <<connPc, cur, inbound, startLog, finished, nFrames>>
ptyVars == <<current_session, current_pty, child, reader, nOut>>
tailerVars == <<chat_log_handle, task, unwatched, nEvents>>
outVars == <<outq, writer, lastSent, sentN, enqN>>
bcVars == <<call, bcLog, iterOrder>>
tmuxVars == <<tmuxSessions, cmdRes>>
connVars == <<clients, nBcast, bcVars, tmuxVars, dispVars, ptyVars, tailerVars, outVars>>

vars == <<decVars, tailVars, rdVars, connVars>>

(***************************************************************************)
(* Bounds                                                                  *)
(***************************************************************************)
MaxBytes == 4      \* length of the byte sequences fed to the decoder
MaxFile == 5       \* length of the watched log file
MaxNotify == 2     \* pending modification notifications
MaxReads == 3      \* successful reads of one PTY reader
MaxElapsed == 12   \* value at which the reader's clock saturates (ms)
MaxFrames == 3     \* inbound frames sent by all peers together
MaxOut == 1        \* Output messages of all PTY readers together
MaxEvents == 1     \* new-line events of all watched files together
MaxBcast == 1      \* messages broadcast by the monitor
MaxCalls == 2      \* calls of broadcast and broadcast_binary

(***************************************************************************)
(* The idle value of each part: what its variables hold in the             *)
(* specifications of the other parts.                                      *)
(***************************************************************************)
DecIdle ==
    /\ decB = <<>>
    /\ decRest = <<>>
    /\ incomplete = <<>>
    /\ decOut = <<>>
    /\ decChunks = 0

TailIdle ==
    /\ file = <<>>
    /\ tailPc = "idle"
    /\ innerPc = "idle"
    /\ pos = 0
    /\ notify_rx = 0
    /\ event_tx = <<>>
    /\ parsed = <<>>
    /\ logLine = <<>>
    /\ logMsg = <<>>
    /\ resContent = <<>>
    /\ resSummary = <<>>
    /\ procs = <<>>
    /\ located = <<>>
    /\ watchLen = 0

RdIdle ==
    /\ rdPc = "idle"
    /\ pending_output = <<>>
    /\ elapsed = 0
    /\ consecutive_errors = 0
    /\ bytes_since_pause = 0
    /\ rdReads = 0
    /\ rdTxOpen = FALSE
    /\ rdSent = <<>>

Clients == {"c1", "c2"}

ConnIdle ==
    /\ clients = {}
    /\ connPc = [c \in Clients |-> "idle"]
    /\ cur = [c \in Clients |-> <<>>]
    /\ inbound = [c \in Clients |-> <<>>]
    /\ startLog = [c \in Clients |-> <<>>]
    /\ finished = [c \in Clients |-> 0]
    /\ current_session = [c \in Clients |-> "None"]
    /\ current_pty = [c \in Clients |-> 0]
    /\ child = [c \in Clients |-> <<>>]
    /\ reader = [c \in Clients |-> <<>>]
    /\ chat_log_handle = [c \in Clients |-> 0]
    /\ task = [c \in Clients |-> <<>>]
    /\ unwatched = [c \in Clients |-> {}]
    /\ outq = [c \in Clients |-> <<>>]
    /\ writer = [c \in Clients |-> "none"]
    /\ lastSent = [c \in Clients |-> [n |-> 0, type |-> "none", src |-> 0]]
    /\ sentN = [c \in Clients |-> 0]
    /\ enqN = [c \in Clients |-> 0]
    /\ nFrames = 0
    /\ nOut = 0
    /\ nEvents = 0
    /\ nBcast = 0
    /\ call = <<>>
    /\ bcLog = [c \in Clients |-> <<>>]
    /\ iterOrder = <<"c1", "c2">>
    /\ tmuxSessions = {}
    /\ cmdRes = [c \in Clients |-> <<>>]

(***************************************************************************)
(* Small helpers                                                           *)
(***************************************************************************)
Min(a, b) == IF a < b THEN a ELSE b
Max(a, b) == IF a > b THEN a ELSE b
Drop(s, n) == SubSeq(s, n + 1, Len(s))
Take(s, n) == SubSeq(s, 1, n)
SeqsUpTo(S, n) == UNION {[1..k -> S] : k \in 0..n}

(***************************************************************************)
(* UTF-8 validation as std::str::from_utf8 performs it.  A byte is an      *)
(* integer 0..255; a text is the sequence of its (valid) UTF-8 bytes.      *)
(***************************************************************************)
\* Representative bytes: 'A', the leads of a 2-, 3- and 4-byte code unit, a
\* continuation byte valid after each of them, and a byte valid nowhere.
Bytes == {65, 195, 226, 240, 169, 255}

\* Width announced by a leading byte; 0 when the byte cannot start a code unit.
Utf8CharWidth(b) ==
    IF b < 128 THEN 1
    ELSE IF b >= 194 /\ b <= 223 THEN 2
    ELSE IF b >= 224 /\ b <= 239 THEN 3
    ELSE IF b >= 240 /\ b <= 244 THEN 4
    ELSE 0

IsCont(b) == b >= 128 /\ b <= 191

\* The range check on the second byte, which excludes overlong forms,
\* surrogates and code points above U+10FFFF.
SecondOk(lead, b) ==
    IF lead = 224 THEN b >= 160 /\ b <= 191
    ELSE IF lead = 237 THEN b >= 128 /\ b <= 159
    ELSE IF lead = 240 THEN b >= 144 /\ b <= 191
    ELSE IF lead = 244 THEN b >= 128 /\ b <= 143
    ELSE IsCont(b)

\* Whether a whole, valid code unit of width w starts at s[i].
CharOkAt(s, i, w) ==
    /\ w > 0
    /\ i + w - 1 <= Len(s)
    /\ w >= 2 => SecondOk(s[i], s[i + 1])
    /\ \A k \in 2..(w - 1) : IsCont(s[i + k])

RECURSIVE ValidFrom(_, _)
ValidFrom(s, i) ==
    IF i > Len(s) THEN Len(s)
    ELSE IF CharOkAt(s, i, Utf8CharWidth(s[i]))
         THEN ValidFrom(s, i + Utf8CharWidth(s[i]))
         ELSE i - 1

\* Utf8Error::valid_up_to(): the length of the maximal valid prefix.
\* from_utf8(s) is Ok exactly when ValidUpTo(s) = Len(s).
ValidUpTo(s) == ValidFrom(s, 1)

(***************************************************************************)
(* Utf8StreamDecoder::decode_chunk                                         *)
(***************************************************************************)
\* First half: the carried bytes joined with at most 4 bytes of the input.
\* Gives the text pushed, the input bytes processed and the carryover left.
DecodeCarry(inc, input) ==
    IF inc = <<>> THEN [text |-> <<>>, processed |-> 0, inc |-> inc]
    ELSE LET combined == inc \o Take(input, Min(Len(input), 4))
             v        == ValidUpTo(combined)
         IN  IF v = Len(combined)
             THEN [text |-> combined,
                   processed |-> Len(combined) - Len(inc),
                   inc |-> <<>>]
             ELSE IF v > 0
             THEN [text |-> Take(combined, v),
                   processed |-> Max(v - Len(inc), 0),
                   inc |-> <<>>]
             ELSE [text |-> <<>>, processed |-> 0, inc |-> inc]

\* Second half: the rest of the input, validated on its own.
DecodeMain(carry, input) ==
    LET remaining == Drop(input, carry.processed)
        v         == ValidUpTo(remaining)
    IN  IF v = Len(remaining)
        THEN [text |-> carry.text \o remaining, incomplete |-> carry.inc]
        ELSE [text |-> carry.text \o Take(remaining, v),
              incomplete |-> Drop(input, carry.processed + v)]

\* decode_chunk(&mut self, input): the text returned and the new carryover.
\* (The second component of the pair returned by the code, processed, is
\* always input.len().)
decode_chunk(inc, input) == DecodeMain(DecodeCarry(inc, input), input)

\* The text a fresh decoder returns when fed B in one chunk.
DecodeWhole(B) == decode_chunk(<<>>, B).text

(***************************************************************************)
(* The log tailer: watch_log_file, read_all_messages, read_new_lines.      *)
(* The file is a sequence of characters; "{" and "}" stand for the two     *)
(* halves of one JSON record, so that a line parses exactly when it holds  *)
(* a whole record.                                                         *)
(***************************************************************************)
None == "None"
NL == "\n"
FileChars == {"{", "}", NL}

Last(s) == s[Len(s)]

\* str::trim on the characters of the model: strips leading and trailing NL.
RECURSIVE TrimStart(_)
TrimStart(s) == IF s # <<>> /\ Head(s) = NL THEN TrimStart(Tail(s)) ELSE s
RECURSIVE TrimEnd(_)
TrimEnd(s) == IF s # <<>> /\ Last(s) = NL THEN TrimEnd(Take(s, Len(s) - 1)) ELSE s
Trim(s) == TrimEnd(TrimStart(s))

\* parse_line: blank lines and lines that are not a whole JSON record give
\* None; a whole record gives a message.
parse_line(line) ==
    LET trimmed == Trim(line)
    IN  IF trimmed = <<>> THEN None
        ELSE IF trimmed = <<"{", "}">> THEN "msg"
        ELSE None

\* BufRead::read_line at offset p of content f: the bytes up to and including
\* the next NL, or up to the end of the file when no NL follows.
RECURSIVE ReadLineEnd(_, _)
ReadLineEnd(f, p) ==
    IF p >= Len(f) THEN Len(f)
    ELSE IF f[p + 1] = NL THEN p + 1
    ELSE ReadLineEnd(f, p + 1)

\* The loop of read_all_messages / read_new_lines from offset p: the lines
\* read, in order, until read_line returns Ok(0).
RECURSIVE ReadLines(_, _)
ReadLines(f, p) ==
    IF p >= Len(f) THEN <<>>
    ELSE <<SubSeq(f, p + 1, ReadLineEnd(f, p))>> \o ReadLines(f, ReadLineEnd(f, p))

\* The messages collected from a sequence of lines.
RECURSIVE Messages(_)
Messages(lines) ==
    IF lines = <<>> THEN <<>>
    ELSE (IF parse_line(Head(lines)) = None THEN <<>> ELSE <<parse_line(Head(lines))>>)
         \o Messages(Tail(lines))

\* Mutant: the offset follows the file back when it has shrunk.
PosAfterReadRewind(f, p) == Len(f)

\* reader.stream_position() after the loop: the end of the file, or the
\* offset sought when that lies beyond the end.
PosAfterRead(f, p) == IF p >= Len(f) THEN p ELSE Len(f)

\* Mutant: the messages of one burst sent as a single event.
NewMessageBatch(msgs) ==
    IF msgs = <<>> THEN <<>> ELSE <<[type |-> "NewMessage", messages |-> msgs]>>

RECURSIVE NewMessageEvents(_)
NewMessageEvents(msgs) ==
    IF msgs = <<>> THEN <<>>
    ELSE <<[type |-> "NewMessage", messages |-> <<Head(msgs)>>]>>
         \o NewMessageEvents(Tail(msgs))

TailInit ==
    /\ ConnIdle
    /\ DecIdle
    /\ RdIdle
    /\ file \in SeqsUpTo(FileChars, 2)
    /\ tailPc = "open"
    /\ innerPc = "idle"
    /\ pos = 0
    /\ notify_rx = 0
    /\ event_tx = <<>>
    /\ parsed = <<>>
    /\ logLine = <<>>
    /\ logMsg = <<>>
    /\ resContent = <<>>
    /\ resSummary = <<>>
    /\ procs = <<>>
    /\ located = <<>>
    /\ watchLen = 0

\* The AI tool appends one byte to its log; the OS reports the modification
\* once the watch is established.
FileAppend(ch) ==
    /\ Len(file) < MaxFile
    /\ file' = Append(file, ch)
    /\ notify_rx' = IF tailPc = "watching" THEN Min(notify_rx + 1, MaxNotify)
                    ELSE notify_rx
    /\ UNCHANGED <<tailPc, innerPc, pos, event_tx, parsed, logLine, logMsg, resContent, resSummary,
                   procs, located, watchLen, decVars, rdVars, connVars>>

\* Mutant: the bursts start to read at the beginning of the file.
HistoryReadKeepsStart ==
    /\ tailPc = "open"
    /\ tailPc' = "setup"
    /\ parsed' = parsed \o ReadLines(file, 0)
    /\ event_tx' = Append(event_tx,
                     [type |-> "History", messages |-> Messages(ReadLines(file, 0))])
    /\ pos' = 0
    /\ UNCHANGED <<file, innerPc, notify_rx, logLine, logMsg, resContent, resSummary, procs, located, watchLen, decVars, rdVars, connVars>>

\* watch_log_file, first part: read the whole file, send History, record the
\* position.
HistoryRead ==
    /\ tailPc = "open"
    /\ tailPc' = "setup"
    /\ parsed' = parsed \o ReadLines(file, 0)
    /\ event_tx' = Append(event_tx,
                     [type |-> "History", messages |-> Messages(ReadLines(file, 0))])
    /\ pos' = PosAfterRead(file, 0)
    /\ UNCHANGED <<file, innerPc, notify_rx, logLine, logMsg, resContent, resSummary, procs, located, watchLen, decVars, rdVars, connVars>>

\* watch_log_file, second part: register the OS watch and spawn the burst task.
WatchSetup ==
    /\ tailPc = "setup"
    /\ tailPc' = "watching"
    /\ innerPc' = "recv"
    /\ watchLen' = Len(file)
    /\ UNCHANGED <<file, pos, notify_rx, event_tx, parsed, logLine, logMsg, resContent, resSummary,
                   procs, located,
                   decVars, rdVars, connVars>>

\* The burst task wakes on a notification and drains the pending ones.
BurstDrain ==
    /\ innerPc = "recv"
    /\ notify_rx > 0
    /\ notify_rx' = 0
    /\ innerPc' = "read"
    /\ UNCHANGED <<file, tailPc, pos, event_tx, parsed, logLine, logMsg, resContent, resSummary,
                   procs, located, watchLen, decVars, rdVars, connVars>>

\* read_new_lines and the emission of one NewMessage per parsed message.
\* Once the receiver of the events is gone the first send fails and the
\* task returns; a burst without a message goes back to recv.
BurstRead ==
    /\ innerPc = "read"
    /\ parsed' = parsed \o ReadLines(file, pos)
    /\ pos' = PosAfterRead(file, pos)
    /\ IF tailPc = "aborted"
       THEN /\ innerPc' = IF Messages(ReadLines(file, pos)) = <<>> THEN "recv" ELSE "exited"
            /\ UNCHANGED event_tx
       ELSE /\ innerPc' = "recv"
            /\ event_tx' = event_tx \o NewMessageEvents(Messages(ReadLines(file, pos)))
    /\ UNCHANGED <<file, tailPc, notify_rx, logLine, logMsg, resContent, resSummary, procs, located, watchLen, decVars, rdVars, connVars>>

TailNext ==
    \/ \E ch \in FileChars : FileAppend(ch)
    \/ HistoryRead
    \/ WatchSetup
    \/ BurstDrain
    \/ BurstRead

SpecTail == TailInit /\ [][TailNext]_vars

\* The tailer as tokio schedules it: watch_log_file runs on once called, and
\* the burst task is woken by a pending notification and finishes its read.
FairSpecTail ==
    /\ SpecTail
    /\ WF_vars(HistoryRead) /\ WF_vars(WatchSetup)
    /\ WF_vars(BurstDrain) /\ WF_vars(BurstRead)

\* The forwarding task that called watch_log_file ends, aborted at its
\* event_rx.recv() or by leaving its loop: the watcher it holds is dropped,
\* and with it the callback that holds notify_tx; event_rx is dropped too.
OuterEnds ==
    /\ tailPc = "watching"
    /\ tailPc' = "aborted"
    /\ UNCHANGED <<file, innerPc, pos, notify_rx, event_tx, parsed, logLine, logMsg, resContent,
                   resSummary, procs, located, watchLen, decVars, rdVars, connVars>>

\* Mutant: a sender of the notification channel outlives the watcher, and
\* the burst task stays parked in recv.
InnerParked ==
    /\ innerPc = "recv"
    /\ notify_rx = 0
    /\ tailPc = "aborted"
    /\ UNCHANGED vars

\* notify_rx.recv() returns None: no sender is left and nothing is pending.
InnerExit ==
    /\ innerPc = "recv"
    /\ notify_rx = 0
    /\ tailPc = "aborted"
    /\ innerPc' = "exited"
    /\ UNCHANGED <<file, tailPc, pos, notify_rx, event_tx, parsed, logLine, logMsg, resContent,
                   resSummary, procs, located, watchLen, decVars, rdVars, connVars>>

\* The tailer and its end; the log grows once the watch is registered.
AbortNext ==
    \/ \E ch \in FileChars : tailPc \in {"watching", "aborted"} /\ FileAppend(ch)
    \/ HistoryRead
    \/ WatchSetup
    \/ BurstDrain
    \/ BurstRead
    \/ OuterEnds
    \/ InnerExit

SpecAbort == TailInit /\ [][AbortNext]_vars

\* The tailer with its end, the burst task as tokio schedules it: woken by
\* a pending notification or by the closing of the channel, it takes its
\* next step.
FairSpecAbort == SpecAbort /\ WF_vars(BurstDrain \/ BurstRead \/ InnerExit)

\* The log is cut back to its first n bytes (rotated or rewritten in
\* place); the OS reports the modification once the watch is established.
FileTruncate(n) ==
    /\ n < Len(file)
    /\ file' = Take(file, n)
    /\ notify_rx' = IF tailPc = "watching" THEN Min(notify_rx + 1, MaxNotify)
                    ELSE notify_rx
    /\ UNCHANGED <<tailPc, innerPc, pos, event_tx, parsed, logLine, logMsg, resContent, resSummary,
                   procs, located, watchLen, decVars, rdVars, connVars>>

\* The tailer with a log that can be cut back; a log cut below the saved
\* offset is not appended to again.
TruncNext ==
    \/ \E ch \in FileChars : Len(file) >= pos /\ FileAppend(ch)
    \/ HistoryRead
    \/ WatchSetup
    \/ BurstDrain
    \/ BurstRead
    \/ \E n \in 0..MaxFile : FileTruncate(n)

SpecTrunc == TailInit /\ [][TruncNext]_vars

\* C9: the tailer never parses a partial trailing line: every line handed to
\* parse_line, in the history read and in every burst, ends with a newline,
\* and the saved offset always lies just past a newline (or at 0).
C9_OnlyWholeLinesParsed ==
    /\ \A i \in DOMAIN parsed : Last(parsed[i]) = NL
    /\ pos = 0 \/ file[pos] = NL

\* C9, second half: a record written in two parts across bursts is parsed
\* once, whole: when every record of the file is newline-terminated and the
\* tailer has caught up, each record of the file has been emitted.
WholeRecords(f) == Len(Messages(ReadLines(f, 0)))
RECURSIVE EmittedCount(_)
EmittedCount(evs) ==
    IF evs = <<>> THEN 0 ELSE Len(Head(evs).messages) + EmittedCount(Tail(evs))
C9_SplitLineParsedOnce ==
    (tailPc = "watching" /\ innerPc = "recv" /\ notify_rx = 0 /\ pos = Len(file)
        /\ (file = <<>> \/ Last(file) = NL))
    => EmittedCount(event_tx) = WholeRecords(file)

(***************************************************************************)
(* The two log dialects' parse_line.  A line is what serde makes of it: a  *)
(* blank line, a line that does not deserialize, or the deserialized       *)
(* record.  An Option is a sequence of length 0 or 1, a string is judged   *)
(* by being empty or not.                                                  *)
(***************************************************************************)
MaxBlocks == 2     \* content blocks of one Claude message

Opt(S) == {<<>>} \cup {<<x>> : x \in S}
unwrap_or_default(o) == IF o = <<>> THEN "" ELSE o[1]

\* claude_parser: RawBlock, RawContent (a string or an array of blocks),
\* RawMessage, RawLine.
RawBlocks ==
    [block_type : {"text", "tool_use", "tool_result", "thinking"},
     text : Opt({"", "hi"})]
RawContents ==
    {[form |-> "Text", text |-> t, blocks |-> <<>>] : t \in {"", "hi"}}
    \cup {[form |-> "Blocks", text |-> "", blocks |-> bs] :
             bs \in SeqsUpTo(RawBlocks, MaxBlocks)}
\* The role strings a log line can carry: RawMessage.role is any string.
Roles == {"user", "assistant", "system"}

ClaudeLines ==
    {[dialect |-> "claude", kind |-> k, line_type |-> "", timestamp |-> <<>>,
      message |-> <<>>] : k \in {"blank", "malformed"}}
    \cup {[dialect |-> "claude", kind |-> "json", line_type |-> t, timestamp |-> ts,
           message |-> m] :
             t \in {"user", "assistant", "summary"},
             ts \in Opt({"2026-02-24T10:00:00Z"}),
             m \in Opt([role : Roles, content : RawContents])}

\* claude_parser::convert_block: a text block with text, a tool_use and a
\* tool_result give a block, everything else gives none.
convert_block(block) ==
    IF block.block_type = "text"
    THEN IF unwrap_or_default(block.text) = "" THEN <<>>
         ELSE <<[type |-> "Text"]>>
    ELSE IF block.block_type = "tool_use" THEN <<[type |-> "ToolCall"]>>
    ELSE IF block.block_type = "tool_result" THEN <<[type |-> "ToolResult"]>>
    ELSE <<>>

\* filter_map(convert_block).collect()
RECURSIVE FilterMapBlocks(_)
FilterMapBlocks(bs) ==
    IF bs = <<>> THEN <<>> ELSE convert_block(Head(bs)) \o FilterMapBlocks(Tail(bs))

\* claude_parser::convert_content
convert_content(content) ==
    IF content.form = "Text"
    THEN IF content.text = "" THEN <<>> ELSE <<[type |-> "Text"]>>
    ELSE FilterMapBlocks(content.blocks)

\* Mutant: a message is returned whatever its content converts to.
claude_parse_line_any(line) ==
    IF line.kind # "json" THEN <<>>
    ELSE IF line.line_type \notin {"user", "assistant"} THEN <<>>
    ELSE IF line.message = <<>> THEN <<>>
    ELSE <<[role |-> line.message[1].role, timestamp |-> line.timestamp,
            blocks |-> convert_content(line.message[1].content)]>>

\* claude_parser::parse_line
claude_parse_line(line) ==
    IF line.kind # "json" THEN <<>>
    ELSE IF line.line_type \notin {"user", "assistant"} THEN <<>>
    ELSE IF line.message = <<>> THEN <<>>
    ELSE IF convert_content(line.message[1].content) = <<>> THEN <<>>
    ELSE <<[role |-> line.message[1].role, timestamp |-> line.timestamp,
            blocks |-> convert_content(line.message[1].content)]>>

\* codex_parser: RawItem (changes is the number of file changes), RawEvent.
RawItems ==
    [item_type : {"agent_message", "command_execution", "file_change",
                  "mcp_tool_call", "reasoning"},
     text : Opt({"", "hi"}),
     command : Opt({"", "ls"}),
     aggregated_output : Opt({"", "out"}),
     changes : Opt(0..2)]
CodexLines ==
    {[dialect |-> "codex", kind |-> k, event_type |-> "", item |-> <<>>] :
        k \in {"blank", "malformed"}}
    \cup {[dialect |-> "codex", kind |-> "json", event_type |-> t, item |-> i] :
             t \in {"item.completed", "item.started"}, i \in Opt(RawItems)}

convert_agent_message(item) ==
    IF unwrap_or_default(item.text) = "" THEN <<>>
    ELSE << <<[type |-> "Text"]>> >>

convert_command_execution(item) ==
    IF unwrap_or_default(item.command) = "" THEN <<>>
    ELSE << <<[type |-> "ToolCall"]>>
            \o (IF item.aggregated_output # <<>> /\ item.aggregated_output[1] # ""
                THEN <<[type |-> "ToolResult"]>> ELSE <<>>) >>

convert_file_change(item) ==
    IF item.changes = <<>> \/ item.changes[1] = 0 THEN <<>>
    ELSE << <<[type |-> "ToolCall"]>> >>

convert_mcp_tool_call(item) == << <<[type |-> "ToolCall"]>> >>

\* codex_parser::convert_item: Some(blocks) or None.
convert_item(item) ==
    IF item.item_type = "agent_message" THEN convert_agent_message(item)
    ELSE IF item.item_type = "command_execution" THEN convert_command_execution(item)
    ELSE IF item.item_type = "file_change" THEN convert_file_change(item)
    ELSE IF item.item_type = "mcp_tool_call" THEN convert_mcp_tool_call(item)
    ELSE <<>>

\* codex_parser::parse_line
codex_parse_line(line) ==
    IF line.kind # "json" THEN <<>>
    ELSE IF line.event_type # "item.completed" THEN <<>>
    ELSE IF line.item = <<>> THEN <<>>
    ELSE IF convert_item(line.item[1]) = <<>> THEN <<>>
    ELSE <<[role |-> "assistant", timestamp |-> <<>>,
            blocks |-> convert_item(line.item[1])[1]]>>

ParseInit ==
    /\ ConnIdle
    /\ DecIdle
    /\ RdIdle
    /\ file = <<>>
    /\ tailPc = "idle"
    /\ innerPc = "idle"
    /\ pos = 0
    /\ notify_rx = 0
    /\ event_tx = <<>>
    /\ parsed = <<>>
    /\ logLine \in ClaudeLines \cup CodexLines
    /\ logMsg = <<>>
    /\ resContent = <<>>
    /\ resSummary = <<>>
    /\ procs = <<>>
    /\ located = <<>>
    /\ watchLen = 0

\* The tailer of a Claude log hands the line to claude_parser::parse_line.
ParseClaude ==
    /\ logMsg = <<>>
    /\ logLine.dialect = "claude"
    /\ logMsg' = <<claude_parse_line(logLine)>>
    /\ UNCHANGED <<file, tailPc, innerPc, pos, notify_rx, event_tx, parsed, logLine,
                   resContent, resSummary, procs, located, watchLen, decVars, rdVars, connVars>>

\* The tailer of a Codex log hands the line to codex_parser::parse_line.
ParseCodex ==
    /\ logMsg = <<>>
    /\ logLine.dialect = "codex"
    /\ logMsg' = <<codex_parse_line(logLine)>>
    /\ UNCHANGED <<file, tailPc, innerPc, pos, notify_rx, event_tx, parsed, logLine,
                   resContent, resSummary, procs, located, watchLen, decVars, rdVars, connVars>>

ParseNext == ParseClaude \/ ParseCodex

SpecParse == ParseInit /\ [][ParseNext]_vars

\* C20: a message returned by either dialect's parse_line has at least one
\* block; a line whose conversion yields no block comes back as none.
C20_ReturnedMessageHasBlocks ==
    \A i \in DOMAIN logMsg : \A j \in DOMAIN logMsg[i] :
        Len(logMsg[i][j].blocks) >= 1

\* A Claude line whose blocks are all dropped by the conversion was parsed
\* to none, and so was a Codex command_execution without a command.
C20_Witness ==
    /\ logMsg = << <<>> >>
    /\ logLine.kind = "json"
    /\ \/ /\ logLine.dialect = "claude"
          /\ logLine.line_type = "assistant"
          /\ logLine.message # <<>>
          /\ logLine.message[1].content.form = "Blocks"
          /\ Len(logLine.message[1].content.blocks) >= 1
       \/ /\ logLine.dialect = "codex"
          /\ logLine.event_type = "item.completed"
          /\ logLine.item # <<>>
          /\ logLine.item[1].item_type = "command_execution"

\* C22: every message a parser returns has role "user" or "assistant",
\* whatever role the line carries, and a message of the Codex dialect has
\* role "assistant" and no timestamp.
C22_RoleIsUserOrAssistant ==
    \A i \in DOMAIN logMsg : \A j \in DOMAIN logMsg[i] :
        /\ logMsg[i][j].role \in {"user", "assistant"}
        /\ logLine.dialect = "codex" =>
              (logMsg[i][j].role = "assistant" /\ logMsg[i][j].timestamp = <<>>)

(***************************************************************************)
(* The summary of a tool result.  A content is a sequence of pieces: 0    *)
(* for an LF, n > 0 for n bytes (ASCII) that hold no LF.                   *)
(***************************************************************************)
MaxPieces == 3     \* pieces of one tool-result content
SummaryMax == 120  \* the length a summary is truncated to

LF == 0
Contents == SeqsUpTo({1, SummaryMax, LF}, MaxPieces)

RECURSIVE ByteLen(_)
ByteLen(t) ==
    IF t = <<>> THEN 0
    ELSE (IF Head(t) = LF THEN 1 ELSE Head(t)) + ByteLen(Tail(t))

RECURSIVE CountLF(_)
CountLF(t) ==
    IF t = <<>> THEN 0
    ELSE (IF Head(t) = LF THEN 1 ELSE 0) + CountLF(Tail(t))

\* &s[..n]: the first n bytes of s.
RECURSIVE TakeBytes(_, _)
TakeBytes(t, n) ==
    IF t = <<>> \/ n = 0 THEN <<>>
    ELSE IF Head(t) = LF THEN <<LF>> \o TakeBytes(Tail(t), n - 1)
    ELSE IF Head(t) <= n THEN <<Head(t)>> \o TakeBytes(Tail(t), n - Head(t))
    ELSE <<n>>

\* str::lines().count(): the LF-terminated lines, and the rest after the
\* last LF when it is not empty.
LinesCount(t) ==
    IF t = <<>> THEN 0
    ELSE IF Last(t) = LF THEN CountLF(t)
    ELSE CountLF(t) + 1

\* codex_parser::truncate, and the same test inline in
\* generate_result_summary.
truncate(t, max) ==
    IF ByteLen(t) <= max THEN [kind |-> "text", text |-> t, dots |-> FALSE, n |-> 0]
    ELSE [kind |-> "text", text |-> TakeBytes(t, max), dots |-> TRUE, n |-> 0]

LinesSummary(n) == [kind |-> "lines", text |-> <<>>, dots |-> FALSE, n |-> n]
EmptySummary == [kind |-> "empty", text |-> <<>>, dots |-> FALSE, n |-> 0]

\* claude_parser::generate_result_summary
generate_result_summary(content) ==
    IF content = <<>> THEN EmptySummary
    ELSE IF LinesCount(content[1]) > 1 THEN LinesSummary(LinesCount(content[1]))
    ELSE truncate(content[1], SummaryMax)

\* codex_parser::summarize_output
summarize_output(text) ==
    IF LinesCount(text) > 1 THEN LinesSummary(LinesCount(text))
    ELSE truncate(text, SummaryMax)

SumInit ==
    /\ ConnIdle
    /\ DecIdle
    /\ RdIdle
    /\ file = <<>>
    /\ tailPc = "idle"
    /\ innerPc = "idle"
    /\ pos = 0
    /\ notify_rx = 0
    /\ event_tx = <<>>
    /\ parsed = <<>>
    /\ logLine = <<>>
    /\ logMsg = <<>>
    /\ resContent \in [dialect : {"claude"}, content : Opt(Contents)]
                     \cup [dialect : {"codex"}, content : Opt(Contents \ {<<>>})]
    /\ resSummary = <<>>
    /\ procs = <<>>
    /\ located = <<>>
    /\ watchLen = 0

\* convert_block of the Claude dialect summarizes the content of a
\* tool_result, present or not.
SummarizeClaude ==
    /\ resSummary = <<>>
    /\ resContent.dialect = "claude"
    /\ resSummary' = <<generate_result_summary(resContent.content)>>
    /\ UNCHANGED <<file, tailPc, innerPc, pos, notify_rx, event_tx, parsed, logLine, logMsg,
                   resContent, procs, located, watchLen, decVars, rdVars, connVars>>

\* convert_command_execution of the Codex dialect summarizes an
\* aggregated_output that is present and not empty.
SummarizeCodex ==
    /\ resSummary = <<>>
    /\ resContent.dialect = "codex"
    /\ resContent.content # <<>>
    /\ resSummary' = <<summarize_output(resContent.content[1])>>
    /\ UNCHANGED <<file, tailPc, innerPc, pos, notify_rx, event_tx, parsed, logLine, logMsg,
                   resContent, procs, located, watchLen, decVars, rdVars, connVars>>

SumNext == SummarizeClaude \/ SummarizeCodex

SpecSummary == SumInit /\ [][SumNext]_vars

(***************************************************************************)
(* detect_log_file: the walk over the process tree of the pane.  Pid 1 is   *)
(* the pane process; parent[i] < i is the parent of pid i.                  *)
(***************************************************************************)
MaxProcs == 6      \* processes in the tree of the pane, the pane's included

ProcNames == {"claude", "codex", "sh"}
ProcTrees ==
    {t \in [parent : [2..MaxProcs -> 1..MaxProcs], name : [1..MaxProcs -> ProcNames]] :
        \A i \in 2..MaxProcs : t.parent[i] < i}

\* direct_children: the pids whose parent is ppid, in the order of /proc.
RECURSIVE ChildrenFrom(_, _, _)
ChildrenFrom(t, ppid, i) ==
    IF i > MaxProcs THEN <<>>
    ELSE (IF t.parent[i] = ppid THEN <<i>> ELSE <<>>) \o ChildrenFrom(t, ppid, i + 1)
direct_children(t, ppid) == ChildrenFrom(t, ppid, 2)

\* The loop of a breadth-first walk: the pid waiting longest is expanded.
RECURSIVE WalkFifo(_, _, _)
WalkFifo(t, result, queue) ==
    IF queue = <<>> THEN result
    ELSE WalkFifo(t, result \o direct_children(t, Head(queue)),
                  Tail(queue) \o direct_children(t, Head(queue)))

\* The loop of get_descendant_pids: queue.pop() takes the pid pushed last.
RECURSIVE WalkPop(_, _, _)
WalkPop(t, result, queue) ==
    IF queue = <<>> THEN result
    ELSE WalkPop(t, result \o direct_children(t, Last(queue)),
                 Take(queue, Len(queue) - 1) \o direct_children(t, Last(queue)))

get_descendant_pids(t) == WalkPop(t, <<1>>, <<1>>)

\* The loop of detect_log_file over the pids: the first named claude or
\* codex decides; none gives the "no AI tool" error.
RECURSIVE FirstTool(_, _)
FirstTool(t, pids) ==
    IF pids = <<>> THEN "no-ai-tool"
    ELSE IF t.name[Head(pids)] \in {"claude", "codex"} THEN t.name[Head(pids)]
    ELSE FirstTool(t, Tail(pids))

detect_log_file(t) == FirstTool(t, get_descendant_pids(t))

LocInit ==
    /\ ConnIdle
    /\ DecIdle
    /\ RdIdle
    /\ file = <<>>
    /\ tailPc = "idle"
    /\ innerPc = "idle"
    /\ pos = 0
    /\ notify_rx = 0
    /\ event_tx = <<>>
    /\ parsed = <<>>
    /\ logLine = <<>>
    /\ logMsg = <<>>
    /\ resContent = <<>>
    /\ resSummary = <<>>
    /\ procs \in ProcTrees
    /\ located = <<>>
    /\ watchLen = 0

Detect ==
    /\ located = <<>>
    /\ located' = <<detect_log_file(procs)>>
    /\ UNCHANGED <<file, tailPc, innerPc, pos, notify_rx, event_tx, parsed, logLine, logMsg,
                   resContent, resSummary, procs, watchLen, decVars, rdVars, connVars>>

LocNext == Detect

SpecLocate == LocInit /\ [][LocNext]_vars

\* The pids of the tree in breadth-first order, the pane's first.
BreadthFirst(t) == WalkFifo(t, <<1>>, <<1>>)

\* The number of steps from the pane process down to pid i.
RECURSIVE Depth(_, _)
Depth(t, i) == IF i = 1 THEN 0 ELSE 1 + Depth(t, t.parent[i])

\* The processes named claude or codex.
Tools(t) == {i \in 1..MaxProcs : t.name[i] \in {"claude", "codex"}}

\* C35: the process that decides is one named claude or codex that no other
\* such process precedes in a breadth-first walk, in whatever order the walk
\* takes the processes of one level: none of them is nearer to the pane
\* process.  The locate fails with "no AI tool" exactly when no process of
\* the tree has either name.
C35_NearestToolDecides ==
    located # <<>> =>
        /\ located[1] = "no-ai-tool" <=> Tools(procs) = {}
        /\ located[1] # "no-ai-tool" =>
              \E i \in Tools(procs) :
                  /\ procs.name[i] = located[1]
                  /\ \A j \in Tools(procs) : Depth(procs, i) <= Depth(procs, j)

\* C35 with the order of a first-in first-out walk that takes the children
\* of a process in the order of /proc.
C35_FirstInFifoOrderDecides ==
    located # <<>> => located[1] = FirstTool(procs, BreadthFirst(procs))

\* The LF-separated segments of a content.
Segments(t) == CountLF(t) + 1

\* C21: the summary of a tool result is "(empty)" when the content is
\* absent, "{n} lines" when the content has n > 1 LF-separated segments, and
\* the content truncated to 120 otherwise.
C21_SummaryCountsSegments ==
    resSummary # <<>> =>
        IF resContent.content = <<>> THEN resSummary[1] = EmptySummary
        ELSE IF Segments(resContent.content[1]) > 1
        THEN resSummary[1] = LinesSummary(Segments(resContent.content[1]))
        ELSE resSummary[1] = truncate(resContent.content[1], SummaryMax)

(***************************************************************************)
(* The PTY reader task of attach_to_session.  A decoded text is a record   *)
(* of its length in bytes and whether it holds a newline; pending_output   *)
(* and the data of an Output are sequences of such texts (their            *)
(* concatenation).                                                         *)
(***************************************************************************)
FlushBytes == 1024        \* pending_output.len() > 1024
FlushMs == 10             \* last_send.elapsed() > 10 ms
MaxConsecutiveErrors == 5 \* consecutive_errors > 5
PauseBytes == 65536       \* bytes_since_pause > 65536
PauseMs == 5              \* flow-control sleep
ErrorSleepMs == 100       \* sleep after a tolerated read error

\* What decode_chunk returns for one read: nothing (only a carried prefix),
\* or a text of some length, with or without a newline.
RdTexts ==
    {[len |-> 0, nl |-> FALSE]}
    \cup {[len |-> n, nl |-> b] : n \in {1, 600, 1025}, b \in BOOLEAN}

RECURSIVE TextLen(_)
TextLen(ts) == IF ts = <<>> THEN 0 ELSE Head(ts).len + TextLen(Tail(ts))
HasNewline(ts) == \E i \in DOMAIN ts : ts[i].nl

\* tx_clone.send: enqueues when the queue is open, fails otherwise.
RdSend(q, m) == IF rdTxOpen THEN Append(q, m) ELSE q

Advance(t, ms) == Min(t + ms, MaxElapsed)

RdInit ==
    /\ ConnIdle
    /\ DecIdle
    /\ TailIdle
    /\ rdPc = "read"
    /\ pending_output = <<>>
    /\ elapsed = 0
    /\ consecutive_errors = 0
    /\ bytes_since_pause = 0
    /\ rdReads = 0
    /\ rdTxOpen = TRUE
    /\ rdSent = <<>>

\* One millisecond passes while the reader is alive.
RdTick ==
    /\ rdPc = "read"
    /\ elapsed < MaxElapsed
    /\ elapsed' = elapsed + 1
    /\ UNCHANGED <<rdPc, pending_output, consecutive_errors, bytes_since_pause,
                   rdReads, rdTxOpen, rdSent, decVars, tailVars, connVars>>

\* The client's outbound writer has ended: sends fail from now on.
RdQueueClosed ==
    /\ rdPc = "read"
    /\ rdTxOpen
    /\ rdTxOpen' = FALSE
    /\ UNCHANGED <<rdPc, pending_output, elapsed, consecutive_errors,
                   bytes_since_pause, rdReads, rdSent, decVars, tailVars, connVars>>

\* reader.read returns Ok(n), n > 0, and the decoder returns text.
RdReadOk(text) ==
    /\ rdPc = "read"
    /\ rdReads < MaxReads
    /\ rdReads' = rdReads + 1
    /\ consecutive_errors' = 0
    /\ UNCHANGED <<rdTxOpen, decVars, tailVars, connVars>>
    /\ IF text.len = 0
       THEN UNCHANGED <<rdPc, pending_output, elapsed, bytes_since_pause, rdSent>>
       ELSE LET pend == Append(pending_output, text)
                should_send == \/ TextLen(pend) > FlushBytes
                               \/ elapsed > FlushMs
                               \/ HasNewline(pend)
            IN  IF ~should_send
                THEN /\ pending_output' = pend
                     /\ bytes_since_pause' = bytes_since_pause + text.len
                     /\ UNCHANGED <<rdPc, elapsed, rdSent>>
                ELSE IF ~rdTxOpen
                THEN \* the send fails: break, then the Disconnected send fails too
                     /\ rdPc' = "done"
                     /\ pending_output' = pend
                     /\ bytes_since_pause' = bytes_since_pause + text.len
                     /\ UNCHANGED <<elapsed, rdSent>>
                ELSE /\ rdSent' = Append(rdSent, [type |-> "output", data |-> pend])
                     /\ pending_output' = <<>>
                     /\ IF bytes_since_pause + text.len > PauseBytes
                        THEN /\ elapsed' = Advance(0, PauseMs)
                             /\ bytes_since_pause' = 0
                        ELSE /\ elapsed' = 0
                             /\ bytes_since_pause' = bytes_since_pause + text.len
                     /\ UNCHANGED rdPc

\* Mutant: on Ok(0) the reader sends Disconnected without flushing.
RdReadEofNoFlush ==
    /\ rdPc = "read"
    /\ rdPc' = "done"
    /\ rdSent' = RdSend(rdSent, [type |-> "disconnected"])
    /\ UNCHANGED <<pending_output, elapsed, consecutive_errors, bytes_since_pause,
                   rdReads, rdTxOpen, decVars, tailVars, connVars>>

\* reader.read returns Ok(0): flush what is pending, then Disconnected.
RdReadEof ==
    /\ rdPc = "read"
    /\ rdPc' = "done"
    /\ rdSent' =
         LET flushed == IF pending_output # <<>>
                        THEN RdSend(rdSent, [type |-> "output", data |-> pending_output])
                        ELSE rdSent
         IN  RdSend(flushed, [type |-> "disconnected"])
    /\ UNCHANGED <<pending_output, elapsed, consecutive_errors, bytes_since_pause,
                   rdReads, rdTxOpen, decVars, tailVars, connVars>>

\* Mutant: the reader gives up on the 5th consecutive read error.
RdReadErrEager ==
    /\ rdPc = "read"
    /\ consecutive_errors' = consecutive_errors + 1
    /\ IF consecutive_errors + 1 >= MaxConsecutiveErrors
       THEN /\ rdPc' = "done"
            /\ rdSent' = RdSend(rdSent, [type |-> "disconnected"])
            /\ UNCHANGED elapsed
       ELSE /\ elapsed' = Advance(elapsed, ErrorSleepMs)
            /\ UNCHANGED <<rdPc, rdSent>>
    /\ UNCHANGED <<pending_output, bytes_since_pause, rdReads, rdTxOpen,
                   decVars, tailVars, connVars>>

\* reader.read returns Err: tolerated with a sleep up to 5 times in a row,
\* the 6th ends the loop; Disconnected follows.
RdReadErr ==
    /\ rdPc = "read"
    /\ consecutive_errors' = consecutive_errors + 1
    /\ IF consecutive_errors + 1 > MaxConsecutiveErrors
       THEN /\ rdPc' = "done"
            /\ rdSent' = RdSend(rdSent, [type |-> "disconnected"])
            /\ UNCHANGED elapsed
       ELSE /\ elapsed' = Advance(elapsed, ErrorSleepMs)
            /\ UNCHANGED <<rdPc, rdSent>>
    /\ UNCHANGED <<pending_output, bytes_since_pause, rdReads, rdTxOpen,
                   decVars, tailVars, connVars>>

RdNext ==
    \/ RdTick
    \/ RdQueueClosed
    \/ \E text \in RdTexts : RdReadOk(text)
    \/ RdReadEof
    \/ RdReadErr

SpecReader == RdInit /\ [][RdNext]_vars

\* C8: decoded text with no newline and fewer than 1024 bytes is flushed once
\* 10 ms have passed since the last flush, whatever the PTY does afterwards:
\* while the reader is alive (waiting in read, no read error outstanding), no
\* such text is pending with more than 10 ms on the clock since the last flush.
C8_SmallOutputFlushedIn10ms ==
    (/\ rdPc = "read"
     /\ consecutive_errors = 0
     /\ pending_output # <<>>
     /\ ~HasNewline(pending_output)
     /\ TextLen(pending_output) < FlushBytes)
    => elapsed <= FlushMs

\* The Disconnected messages among those the reader enqueued.
Disconnects == {i \in DOMAIN rdSent : rdSent[i].type = "disconnected"}

\* C23: when the reader has ended with the client's queue open, its last
\* message is the one Disconnected it sent, and the text that was pending
\* when it ended went out as an Output right before it.
C23_FlushThenDisconnected ==
    (rdPc = "done" /\ rdTxOpen) =>
        /\ Disconnects = {Len(rdSent)}
        /\ pending_output # <<>> =>
              /\ Len(rdSent) >= 2
              /\ rdSent[Len(rdSent) - 1] = [type |-> "output", data |-> pending_output]

\* C25: a read error ends the reader only as the 6th in a row; the first
\* five in a row leave it reading; a successful read sets the count of
\* consecutive errors back to zero.
C25_SixthErrorInARowEnds ==
    [][/\ rdReads' # rdReads => consecutive_errors' = 0
       /\ consecutive_errors' = consecutive_errors + 1 =>
             (rdPc' = "done" <=> consecutive_errors' = 6)]_vars

\* The reader has read successfully, then failed six times in a row, and
\* has ended.
C25_Witness ==
    /\ rdPc = "done"
    /\ rdReads >= 1
    /\ consecutive_errors = 6

(***************************************************************************)
(* Specification of the decoder: a byte sequence B is chosen and fed to    *)
(* one decoder in chunks of every possible size.                           *)
(***************************************************************************)
DecInit ==
    /\ ConnIdle
    /\ TailIdle
    /\ RdIdle
    /\ decB \in SeqsUpTo(Bytes, MaxBytes) \ {<<>>}
    /\ decRest = decB
    /\ incomplete = <<>>
    /\ decOut = <<>>
    /\ decChunks = 0

\* One call decode_chunk(&buffer[..n]) on the next n bytes.
DecFeed(n) ==
    /\ n \in 1..Len(decRest)
    /\ LET r == decode_chunk(incomplete, Take(decRest, n))
       IN  /\ decOut' = decOut \o r.text
           /\ incomplete' = r.incomplete
    /\ decRest' = Drop(decRest, n)
    /\ decChunks' = decChunks + 1
    /\ UNCHANGED <<decB, tailVars, rdVars, connVars>>

DecNext == \E n \in 1..MaxBytes : DecFeed(n)

SpecDec == DecInit /\ [][DecNext]_vars

\* C10: for every byte sequence B and every partition of B into chunks, the
\* concatenation of the texts one decoder returns for the chunks equals the
\* text a fresh decoder returns for B fed in one chunk.
C10_ChunkingPreservesText ==
    decRest = <<>> => decOut = DecodeWhole(decB)

\* C11: for every valid UTF-8 string B and every way of cutting its bytes into
\* chunks, the texts returned for the chunks, concatenated, are B itself, and
\* the carryover is empty after the last chunk.
C11_ValidStringAnyChunks ==
    (ValidUpTo(decB) = Len(decB) /\ decRest = <<>>)
        => (decOut = decB /\ incomplete = <<>>)

(***************************************************************************)
(* Client connections: handle_socket, handle_message, attach_to_session,   *)
(* cleanup_session and ClientManager.                                      *)
(***************************************************************************)
\* One tmux session name: the code never compares session names.
Sessions == {"s1"}

\* What a peer can put on the socket: commands, a Close frame, or the end of
\* the stream / a receive error ("error").
PeerFrames ==
    {[cmd |-> "attach-session", arg |-> s] : s \in Sessions}
    \cup {[cmd |-> x, arg |-> None] :
            x \in {"ping", "watch-chat-log", "unwatch-chat-log", "close", "error"}}

Terminal(f) == f.cmd \in {"close", "error"}

\* Mutant: the dispatcher takes the newest frame on the socket.
NextFrameNewest(c) == inbound[c][Len(inbound[c])]

\* receiver.next(): the frame the dispatcher receives next.
NextFrame(c) == Head(inbound[c])
RestFrames(c) == Tail(inbound[c])

\* Mutant: the writer takes the newest queued frame.
WriterNextLifo(c) == outq[c][Len(outq[c])]

\* The frame rx.recv() hands to the writer task.
WriterNext(c) == Head(outq[c])
WriterRest(c) == Tail(outq[c])

\* tx.send(msg) on the client's queue: enqueues while the receiver exists
\* (the writer task is running) and fails otherwise.
Enq(c, type, src) ==
    IF writer[c] = "running"
    THEN /\ outq' = [outq EXCEPT ![c] =
                        Append(@, [n |-> enqN[c] + 1, type |-> type, src |-> src])]
         /\ enqN' = [enqN EXCEPT ![c] = @ + 1]
    ELSE UNCHANGED <<outq, enqN>>

\* The dispatcher takes a command off the socket and its handler starts.
Take1(c) ==
    /\ inbound' = [inbound EXCEPT ![c] = RestFrames(c)]
    /\ startLog' = [startLog EXCEPT ![c] = Append(@, NextFrame(c).seq)]

\* handle_message returns (Ok or Err): the dispatcher awaits the next frame.
Return(c) ==
    /\ connPc' = [connPc EXCEPT ![c] = "recv"]
    /\ finished' = [finished EXCEPT ![c] = @ + 1]
    /\ cur' = [cur EXCEPT ![c] = <<>>]

Receiving(c, cmd) ==
    /\ connPc[c] = "recv"
    /\ inbound[c] # <<>>
    /\ NextFrame(c).cmd = cmd

\* JoinHandle::abort on a tailer task: a task parked at an await is cancelled
\* there; a task that is running goes on to its next await.
AbortTask(t) ==
    IF t.pc \in {"detect", "recv"}
    THEN [t EXCEPT !.pc = "cancelled", !.chan = <<>>]
    ELSE IF t.pc \in {"locate", "fwd"} THEN [t EXCEPT !.aborted = TRUE]
    ELSE t

\* Mutant: the old child is neither killed nor reaped.
KillWaitSkipped(ch, k) == ch

\* kill() and wait() on the child of PtySession k.
KillWait(ch, k) == [ch EXCEPT ![k].st = "reaped"]

\* A server that has accepted no connection yet.
ConnStart ==
    /\ DecIdle
    /\ TailIdle
    /\ RdIdle
    /\ clients = {}
    /\ connPc = [c \in Clients |-> "none"]
    /\ cur = [c \in Clients |-> <<>>]
    /\ inbound = [c \in Clients |-> <<>>]
    /\ startLog = [c \in Clients |-> <<>>]
    /\ finished = [c \in Clients |-> 0]
    /\ current_session = [c \in Clients |-> None]
    /\ current_pty = [c \in Clients |-> 0]
    /\ child = [c \in Clients |-> <<>>]
    /\ reader = [c \in Clients |-> <<>>]
    /\ chat_log_handle = [c \in Clients |-> 0]
    /\ task = [c \in Clients |-> <<>>]
    /\ unwatched = [c \in Clients |-> {}]
    /\ outq = [c \in Clients |-> <<>>]
    /\ writer = [c \in Clients |-> "none"]
    /\ lastSent = [c \in Clients |-> [n |-> 0, type |-> "none", src |-> 0]]
    /\ sentN = [c \in Clients |-> 0]
    /\ enqN = [c \in Clients |-> 0]
    /\ nFrames = 0
    /\ nOut = 0
    /\ nEvents = 0
    /\ nBcast = 0
    /\ call = <<>>
    /\ bcLog = [c \in Clients |-> <<>>]
    /\ cmdRes = [c \in Clients |-> <<>>]

\* The sessions the peer names exist when the server starts.
ConnInit == ConnStart /\ tmuxSessions = Sessions /\ iterOrder = <<"c1", "c2">>

\* Some call of broadcast or broadcast_binary holds the read lock of the
\* registry: add_client and remove_client wait for the write lock.
ReadLocked == \E i \in DOMAIN call : call[i].pc = "sending"

\* handle_socket up to the inbound loop: register the send handle, spawn the
\* writer task.
Connect(c) ==
    /\ connPc[c] = "none"
    /\ ~ReadLocked
    /\ connPc' = [connPc EXCEPT ![c] = "recv"]
    /\ clients' = clients \cup {c}
    /\ writer' = [writer EXCEPT ![c] = "running"]
    /\ UNCHANGED <<nBcast, bcVars, tmuxVars, cur, inbound, startLog, finished, nFrames, ptyVars, tailerVars,
                   outq, lastSent, sentN, enqN, decVars, tailVars, rdVars>>

\* The peer sends a frame; nothing follows a Close or the end of the stream.
PeerSend(c, f) ==
    /\ connPc[c] \notin {"none", "cleanup", "remove", "done"}
    /\ nFrames < MaxFrames
    /\ \A i \in DOMAIN inbound[c] : ~Terminal(inbound[c][i])
    /\ inbound' = [inbound EXCEPT ![c] =
           Append(@, [seq |-> Len(startLog[c]) + Len(inbound[c]) + 1,
                      cmd |-> f.cmd, arg |-> f.arg])]
    /\ nFrames' = nFrames + 1
    /\ UNCHANGED <<clients, nBcast, bcVars, tmuxVars, connPc, cur, startLog, finished, ptyVars, tailerVars,
                   outVars, decVars, tailVars, rdVars>>

\* Message::Close, a receive error or the end of the stream ends the loop.
RecvClose(c) ==
    /\ connPc[c] = "recv"
    /\ inbound[c] # <<>>
    /\ Terminal(NextFrame(c))
    /\ connPc' = [connPc EXCEPT ![c] = "cleanup"]
    /\ inbound' = [inbound EXCEPT ![c] = RestFrames(c)]
    /\ UNCHANGED <<clients, nBcast, bcVars, tmuxVars, cur, startLog, finished, nFrames, ptyVars, tailerVars,
                   outVars, decVars, tailVars, rdVars>>

\* Ping: reply Pong.
RecvPing(c) ==
    /\ Receiving(c, "ping")
    /\ Take1(c)
    /\ Enq(c, "pong", 0)
    /\ Return(c)
    /\ UNCHANGED <<clients, nBcast, bcVars, tmuxVars, nFrames, ptyVars, tailerVars, writer, lastSent, sentN,
                   decVars, tailVars, rdVars>>

\* attach_to_session up to the wait for the old reader, entered from the
\* handler of cmd: remember the session, take the old PtySession, kill and
\* reap its child, abort its reader (a blocking task that has started is not
\* stopped by abort).
AttachStart(c, cmd) ==
    /\ Receiving(c, cmd)
    /\ Take1(c)
    /\ current_session' = [current_session EXCEPT ![c] = NextFrame(c).arg]
    /\ cur' = [cur EXCEPT ![c] = [cmd |-> cmd,
                                  arg |-> NextFrame(c).arg,
                                  old |-> current_pty[c]]]
    /\ IF current_pty[c] # 0
       THEN /\ child' = [child EXCEPT ![c] = KillWait(@, current_pty[c])]
            /\ current_pty' = [current_pty EXCEPT ![c] = 0]
            /\ connPc' = [connPc EXCEPT ![c] = "await_reader"]
       ELSE /\ connPc' = [connPc EXCEPT ![c] = "attach_open"]
            /\ UNCHANGED <<child, current_pty>>
    /\ UNCHANGED <<clients, nBcast, bcVars, tmuxVars, finished, nFrames, reader, nOut,
                   tailerVars, outVars, decVars, tailVars, rdVars>>

\* AttachSession.
RecvAttach(c) == AttachStart(c, "attach-session")

\* Mutant: the handler does not wait for the old reader.
AwaitReaderSkipped(c) ==
    /\ connPc[c] = "await_reader"
    /\ connPc' = [connPc EXCEPT ![c] = "attach_open"]
    /\ UNCHANGED <<clients, nBcast, bcVars, tmuxVars, cur, inbound, startLog, finished, nFrames, ptyVars,
                   tailerVars, outVars, decVars, tailVars, rdVars>>

\* old_pty.reader_task.await returns once the old reader has finished.
AwaitReader(c) ==
    /\ connPc[c] = "await_reader"
    /\ reader[c][cur[c].old] = "done"
    /\ connPc' = [connPc EXCEPT ![c] = "attach_open"]
    /\ UNCHANGED <<clients, nBcast, bcVars, tmuxVars, cur, inbound, startLog, finished, nFrames, ptyVars,
                   tailerVars, outVars, decVars, tailVars, rdVars>>

\* One more record of what an adapter command came to.
Logged(c, cmd, failed, reply, success) ==
    [cmdRes EXCEPT ![c] = Append(@, [cmd |-> cmd, failed |-> failed,
                                      open |-> writer[c] = "running",
                                      reply |-> reply, success |-> success,
                                      pty |-> current_pty[c]])]

\* After the settle delay: opening the PTY, the has-session query or
\* spawn_command fails and the handler returns the error; when the failure
\* is that of spawn_command the session may have been created just before.
\* A SelectWindow that got here returns without a reply.
AttachOpenFail(c) ==
    /\ connPc[c] = "attach_open"
    /\ Return(c)
    /\ tmuxSessions' \in {tmuxSessions, tmuxSessions \cup {cur[c].arg}}
    /\ cmdRes' = IF cur[c].cmd = "select-window"
                 THEN Logged(c, "select-window", FALSE, "none", "na")
                 ELSE cmdRes
    /\ UNCHANGED <<clients, nBcast, bcVars, inbound, startLog, nFrames, ptyVars, tailerVars,
                   outVars, decVars, tailVars, rdVars>>

\* After the settle delay: the session does not exist and create_session
\* fails; the handler returns the error.
AttachCreateFail(c) ==
    /\ connPc[c] = "attach_open"
    /\ cur[c].arg \notin tmuxSessions
    /\ Return(c)
    /\ cmdRes' = Logged(c, cur[c].cmd, TRUE, "none", "na")
    /\ UNCHANGED <<clients, nBcast, bcVars, tmuxSessions, inbound, startLog, nFrames, ptyVars,
                   tailerVars, outVars, decVars, tailVars, rdVars>>

\* After the settle delay: the PTY is opened, the session created when it
\* does not exist, the child spawned, the reader task started and the new
\* PtySession stored.
AttachOpenOk(c) ==
    /\ connPc[c] = "attach_open"
    /\ connPc' = [connPc EXCEPT ![c] = "attach_reply"]
    /\ child' = [child EXCEPT ![c] =
                    Append(@, [st |-> "alive", tmux_session |-> cur[c].arg])]
    /\ reader' = [reader EXCEPT ![c] = Append(@, "running")]
    /\ current_pty' = [current_pty EXCEPT ![c] = Len(child[c]) + 1]
    /\ tmuxSessions' = tmuxSessions \cup {cur[c].arg}
    /\ UNCHANGED <<clients, nBcast, bcVars, cmdRes, cur, inbound, startLog, finished, nFrames,
                   current_session, nOut, tailerVars, outVars,
                   decVars, tailVars, rdVars>>

\* Send the attached confirmation and return: to the dispatcher from
\* AttachSession, to the rest of the handler from SelectWindow (when the send
\* fails the handler returns the error).
AttachReply(c) ==
    /\ connPc[c] = "attach_reply"
    /\ Enq(c, "attached", 0)
    /\ IF cur[c].cmd = "select-window" /\ writer[c] = "running"
       THEN /\ connPc' = [connPc EXCEPT ![c] = "select_window"]
            /\ UNCHANGED <<finished, cur, cmdRes>>
       ELSE /\ Return(c)
            /\ cmdRes' = IF cur[c].cmd = "select-window"
                         THEN Logged(c, "select-window", FALSE, "none", "na")
                         ELSE cmdRes
    /\ UNCHANGED <<clients, nBcast, bcVars, tmuxSessions, inbound, startLog, nFrames, ptyVars,
                   tailerVars, writer, lastSent, sentN, decVars, tailVars, rdVars>>

\* WatchChatLog: abort the tailer held, spawn a new one, keep its handle.
RecvWatch(c) ==
    /\ Receiving(c, "watch-chat-log")
    /\ Take1(c)
    /\ task' = [task EXCEPT ![c] =
          Append(IF chat_log_handle[c] # 0
                 THEN [@ EXCEPT ![chat_log_handle[c]] = AbortTask(@)]
                 ELSE @,
                 [pc |-> "detect", aborted |-> FALSE, chan |-> <<>>, hand |-> None])]
    /\ chat_log_handle' = [chat_log_handle EXCEPT ![c] = Len(task[c]) + 1]
    /\ Return(c)
    /\ UNCHANGED <<clients, nBcast, bcVars, tmuxVars, nFrames, ptyVars, unwatched, nEvents, outVars,
                   decVars, tailVars, rdVars>>

\* Mutant: UnwatchChatLog with no tailer answers with a chat-log-error.
RecvUnwatchReplies(c) ==
    /\ Receiving(c, "unwatch-chat-log")
    /\ Take1(c)
    /\ IF chat_log_handle[c] # 0
       THEN /\ task' = [task EXCEPT ![c][chat_log_handle[c]] = AbortTask(@)]
            /\ chat_log_handle' = [chat_log_handle EXCEPT ![c] = 0]
            /\ unwatched' = [unwatched EXCEPT ![c] =
                   @ \cup {[task |-> chat_log_handle[c], mark |-> enqN[c],
                            sent |-> sentN[c]]}]
            /\ UNCHANGED <<outq, enqN>>
       ELSE /\ Enq(c, "chat-log-error", 0)
            /\ UNCHANGED <<task, chat_log_handle, unwatched>>
    /\ Return(c)
    /\ UNCHANGED <<clients, nBcast, bcVars, tmuxVars, nFrames, ptyVars, nEvents,
                   writer, lastSent, sentN, decVars, tailVars, rdVars>>

\* UnwatchChatLog: abort the tailer held, if any.
RecvUnwatch(c) ==
    /\ Receiving(c, "unwatch-chat-log")
    /\ Take1(c)
    /\ IF chat_log_handle[c] # 0
       THEN /\ task' = [task EXCEPT ![c][chat_log_handle[c]] = AbortTask(@)]
            /\ chat_log_handle' = [chat_log_handle EXCEPT ![c] = 0]
            /\ unwatched' = [unwatched EXCEPT ![c] =
                   @ \cup {[task |-> chat_log_handle[c], mark |-> enqN[c],
                            sent |-> sentN[c]]}]
       ELSE UNCHANGED <<task, chat_log_handle, unwatched>>
    /\ Return(c)
    /\ UNCHANGED <<clients, nBcast, bcVars, tmuxVars, nFrames, ptyVars, nEvents, outVars,
                   decVars, tailVars, rdVars>>

\* Mutant: cleanup_session forgets the tailer handle.
CleanupSessionNoTailer(c) ==
    /\ connPc[c] = "cleanup"
    /\ connPc' = [connPc EXCEPT ![c] = "remove"]
    /\ IF current_pty[c] # 0
       THEN /\ child' = [child EXCEPT ![c][current_pty[c]].st = "reaped"]
            /\ current_pty' = [current_pty EXCEPT ![c] = 0]
       ELSE UNCHANGED <<child, current_pty>>
    /\ UNCHANGED <<clients, nBcast, bcVars, tmuxVars, cur, inbound, startLog, finished, nFrames,
                   current_session, reader, nOut, tailerVars, outVars,
                   decVars, tailVars, rdVars>>

\* Mutant: cleanup_session also kills the session the client was attached to.
CleanupSessionKillsSession(c) ==
    /\ connPc[c] = "cleanup"
    /\ connPc' = [connPc EXCEPT ![c] = "remove"]
    /\ IF current_pty[c] # 0
       THEN /\ child' = [child EXCEPT ![c] = KillWait(@, current_pty[c])]
            /\ current_pty' = [current_pty EXCEPT ![c] = 0]
            /\ tmuxSessions' = tmuxSessions \ {child[c][current_pty[c]].tmux_session}
       ELSE UNCHANGED <<child, current_pty, tmuxSessions>>
    /\ IF chat_log_handle[c] # 0
       THEN /\ task' = [task EXCEPT ![c][chat_log_handle[c]] = AbortTask(@)]
            /\ chat_log_handle' = [chat_log_handle EXCEPT ![c] = 0]
       ELSE UNCHANGED <<task, chat_log_handle>>
    /\ UNCHANGED <<clients, nBcast, bcVars, cmdRes, cur, inbound, startLog, finished, nFrames,
                   current_session, reader, nOut, unwatched, nEvents, outVars,
                   decVars, tailVars, rdVars>>

\* Mutant: cleanup_session leaves the tailer handle alone.
CleanupSessionKeepsTailer(c) ==
    /\ connPc[c] = "cleanup"
    /\ connPc' = [connPc EXCEPT ![c] = "remove"]
    /\ IF current_pty[c] # 0
       THEN /\ child' = [child EXCEPT ![c] = KillWait(@, current_pty[c])]
            /\ current_pty' = [current_pty EXCEPT ![c] = 0]
       ELSE UNCHANGED <<child, current_pty>>
    /\ UNCHANGED <<clients, nBcast, bcVars, tmuxVars, cur, inbound, startLog, finished, nFrames,
                   current_session, reader, nOut, tailerVars, outVars,
                   decVars, tailVars, rdVars>>

\* cleanup_session: take the PtySession, kill and reap its child, abort its
\* reader; take the tailer handle and abort it.
CleanupSession(c) ==
    /\ connPc[c] = "cleanup"
    /\ connPc' = [connPc EXCEPT ![c] = "remove"]
    /\ IF current_pty[c] # 0
       THEN /\ child' = [child EXCEPT ![c] = KillWait(@, current_pty[c])]
            /\ current_pty' = [current_pty EXCEPT ![c] = 0]
       ELSE UNCHANGED <<child, current_pty>>
    /\ IF chat_log_handle[c] # 0
       THEN /\ task' = [task EXCEPT ![c][chat_log_handle[c]] = AbortTask(@)]
            /\ chat_log_handle' = [chat_log_handle EXCEPT ![c] = 0]
       ELSE UNCHANGED <<task, chat_log_handle>>
    /\ UNCHANGED <<clients, nBcast, bcVars, tmuxVars, cur, inbound, startLog, finished, nFrames,
                   current_session, reader, nOut, unwatched, nEvents, outVars,
                   decVars, tailVars, rdVars>>

\* Mutant: handle_socket returns without unregistering the client.
RemoveClientSkipped(c) ==
    /\ connPc[c] = "remove"
    /\ connPc' = [connPc EXCEPT ![c] = "done"]
    /\ UNCHANGED <<clients, nBcast, bcVars, tmuxVars, cur, inbound, startLog, finished, nFrames, ptyVars,
                   tailerVars, outVars, decVars, tailVars, rdVars>>

\* ClientManager::remove_client, then handle_socket returns.
RemoveClient(c) ==
    /\ connPc[c] = "remove"
    /\ ~ReadLocked
    /\ connPc' = [connPc EXCEPT ![c] = "done"]
    /\ clients' = clients \ {c}
    /\ UNCHANGED <<nBcast, bcVars, tmuxVars, cur, inbound, startLog, finished, nFrames, ptyVars, tailerVars,
                   outVars, decVars, tailVars, rdVars>>

\* The writer task sends the next queued frame on the socket.
WriterSend(c) ==
    /\ writer[c] = "running"
    /\ outq[c] # <<>>
    /\ lastSent' = [lastSent EXCEPT ![c] = WriterNext(c)]
    /\ sentN' = [sentN EXCEPT ![c] = @ + 1]
    /\ outq' = [outq EXCEPT ![c] = WriterRest(c)]
    /\ UNCHANGED <<clients, nBcast, bcVars, tmuxVars, dispVars, ptyVars, tailerVars, writer, enqN,
                   decVars, tailVars, rdVars>>

\* sender.send fails: the writer task breaks out of its loop and drops the
\* receiving end of the queue with whatever it holds.
WriterSendFail(c) ==
    /\ writer[c] = "running"
    /\ outq[c] # <<>>
    /\ writer' = [writer EXCEPT ![c] = "failed"]
    /\ outq' = [outq EXCEPT ![c] = <<>>]
    /\ UNCHANGED <<clients, nBcast, bcVars, tmuxVars, dispVars, ptyVars, tailerVars, lastSent, sentN, enqN,
                   decVars, tailVars, rdVars>>

\* Whether some clone of the queue's send handle still exists: the registry
\* entry, WsState.message_tx, a reader task's tx_clone, a tailer's message_tx.
SendersExist(c) ==
    \/ c \in clients
    \/ connPc[c] # "done"
    \/ \E k \in DOMAIN reader[c] : reader[c][k] = "running"
    \/ \E k \in DOMAIN task[c] : task[c][k].pc \notin {"done", "cancelled"}

\* rx.recv() returns None: every send handle is gone and the queue is empty.
WriterClosed(c) ==
    /\ writer[c] = "running"
    /\ outq[c] = <<>>
    /\ ~SendersExist(c)
    /\ writer' = [writer EXCEPT ![c] = "closed"]
    /\ UNCHANGED <<clients, nBcast, bcVars, tmuxVars, dispVars, ptyVars, tailerVars, outq, lastSent, sentN, enqN,
                   decVars, tailVars, rdVars>>

\* The attached tmux client exits on its own (detach, session killed).
ChildExit(c, k) ==
    /\ k \in DOMAIN child[c]
    /\ child[c][k].st = "alive"
    /\ child' = [child EXCEPT ![c][k].st = "exited"]
    /\ UNCHANGED <<clients, nBcast, bcVars, tmuxVars, dispVars, current_session, current_pty, reader, nOut,
                   tailerVars, outVars, decVars, tailVars, rdVars>>

\* The reader task of PtySession k flushes an Output; a failed send ends it
\* (the Disconnected it then sends fails as well).
ReaderOutput(c, k) ==
    /\ k \in DOMAIN reader[c]
    /\ reader[c][k] = "running"
    /\ nOut < MaxOut
    /\ nOut' = nOut + 1
    /\ Enq(c, "output", k)
    /\ reader' = IF writer[c] = "running" THEN reader
                 ELSE [reader EXCEPT ![c][k] = "done"]
    /\ UNCHANGED <<clients, nBcast, bcVars, tmuxVars, dispVars, current_session, current_pty, child,
                   tailerVars, writer, lastSent, sentN, decVars, tailVars, rdVars>>

\* The child is gone: the reads of the reader task end (EOF, or read errors
\* up to the 6th) and it sends Disconnected as its last message.
ReaderExit(c, k) ==
    /\ k \in DOMAIN reader[c]
    /\ reader[c][k] = "running"
    /\ child[c][k].st # "alive"
    /\ Enq(c, "disconnected", k)
    /\ reader' = [reader EXCEPT ![c][k] = "done"]
    /\ UNCHANGED <<clients, nBcast, bcVars, tmuxVars, dispVars, current_session, current_pty, child, nOut,
                   tailerVars, writer, lastSent, sentN, decVars, tailVars, rdVars>>

\* The ServerMessage a ChatLogEvent is forwarded as.
ChatFrameType(ev) ==
    IF ev = "History" THEN "chat-history"
    ELSE IF ev = "NewMessage" THEN "chat-event"
    ELSE "chat-log-error"

TaskAt(c, k, pc) == k \in DOMAIN task[c] /\ task[c][k].pc = pc

\* detect_log_file: the tmux query for the pane pid comes back.
TailPanePid(c, k) ==
    /\ TaskAt(c, k, "detect")
    /\ task' = [task EXCEPT ![c][k].pc = "locate"]
    /\ UNCHANGED <<clients, nBcast, bcVars, tmuxVars, dispVars, ptyVars, chat_log_handle, unwatched, nEvents,
                   outVars, decVars, tailVars, rdVars>>

\* The tmux query fails: one ChatLogError, the task ends.
TailPanePidFail(c, k) ==
    /\ TaskAt(c, k, "detect")
    /\ Enq(c, "chat-log-error", k)
    /\ task' = [task EXCEPT ![c][k].pc = "done"]
    /\ UNCHANGED <<clients, nBcast, bcVars, tmuxVars, dispVars, ptyVars, chat_log_handle, unwatched, nEvents,
                   writer, lastSent, sentN, decVars, tailVars, rdVars>>

\* Mutant: a failed locate ends the task without a ChatLogError.
TailLocateFailSilent(c, k) ==
    /\ TaskAt(c, k, "locate")
    /\ task' = [task EXCEPT ![c][k].pc = "done"]
    /\ UNCHANGED <<clients, nBcast, bcVars, tmuxVars, dispVars, ptyVars, chat_log_handle, unwatched, nEvents,
                   outVars, decVars, tailVars, rdVars>>

\* No AI tool or no log file is found, or watch_log_file fails: one
\* ChatLogError, the task ends.
TailLocateFail(c, k) ==
    /\ TaskAt(c, k, "locate")
    /\ Enq(c, "chat-log-error", k)
    /\ task' = [task EXCEPT ![c][k].pc = "done"]
    /\ UNCHANGED <<clients, nBcast, bcVars, tmuxVars, dispVars, ptyVars, chat_log_handle, unwatched, nEvents,
                   writer, lastSent, sentN, decVars, tailVars, rdVars>>

\* The log is found and watch_log_file succeeds: History is on the event
\* channel and the first recv returns it without suspending.
TailWatchOk(c, k) ==
    /\ TaskAt(c, k, "locate")
    /\ task' = [task EXCEPT ![c][k].pc = "fwd", ![c][k].hand = "History"]
    /\ UNCHANGED <<clients, nBcast, bcVars, tmuxVars, dispVars, ptyVars, chat_log_handle, unwatched, nEvents,
                   outVars, decVars, tailVars, rdVars>>

\* The burst task of watch_log_file emits a NewMessage on the event channel.
TailFileEvent(c, k) ==
    /\ k \in DOMAIN task[c]
    /\ task[c][k].pc \in {"recv", "fwd"}
    /\ nEvents < MaxEvents
    /\ nEvents' = nEvents + 1
    /\ task' = [task EXCEPT ![c][k].chan = Append(@, "NewMessage")]
    /\ UNCHANGED <<clients, nBcast, bcVars, tmuxVars, dispVars, ptyVars, chat_log_handle, unwatched,
                   outVars, decVars, tailVars, rdVars>>

\* event_rx.recv() returns the next event.
TailRecv(c, k) ==
    /\ TaskAt(c, k, "recv")
    /\ task[c][k].chan # <<>>
    /\ task' = [task EXCEPT ![c][k] =
                   [pc |-> "fwd", aborted |-> @.aborted,
                    chan |-> Tail(@.chan), hand |-> Head(@.chan)]]
    /\ UNCHANGED <<clients, nBcast, bcVars, tmuxVars, dispVars, ptyVars, chat_log_handle, unwatched, nEvents,
                   outVars, decVars, tailVars, rdVars>>

\* The forwarder sends the event to the client's queue and loops to recv: a
\* failed send ends the task; an aborted task is cancelled at the recv that
\* suspends, and goes on while the channel holds events.
TailForward(c, k) ==
    /\ TaskAt(c, k, "fwd")
    /\ Enq(c, ChatFrameType(task[c][k].hand), k)
    /\ task' = [task EXCEPT ![c][k] =
          IF writer[c] # "running"
          THEN [@ EXCEPT !.pc = "done", !.hand = None, !.chan = <<>>]
          ELSE IF ~@.aborted
          THEN [@ EXCEPT !.pc = "recv", !.hand = None]
          ELSE IF @.chan # <<>>
          THEN [pc |-> "fwd", aborted |-> TRUE,
                chan |-> Tail(@.chan), hand |-> Head(@.chan)]
          ELSE [@ EXCEPT !.pc = "cancelled", !.hand = None]]
    /\ UNCHANGED <<clients, nBcast, bcVars, tmuxVars, dispVars, ptyVars, chat_log_handle, unwatched, nEvents,
                   writer, lastSent, sentN, decVars, tailVars, rdVars>>

\* The monitor puts a message on the broadcast channel and the forwarder of
\* main hands it to ClientManager::broadcast: one send on the queue of every
\* registered client.
Broadcast ==
    /\ nBcast < MaxBcast
    /\ nBcast' = nBcast + 1
    /\ outq' = [c \in Clients |->
                  IF c \in clients /\ writer[c] = "running"
                  THEN Append(outq[c], [n |-> enqN[c] + 1, type |-> "broadcast", src |-> 0])
                  ELSE outq[c]]
    /\ enqN' = [c \in Clients |->
                  IF c \in clients /\ writer[c] = "running" THEN enqN[c] + 1 ELSE enqN[c]]
    /\ UNCHANGED <<clients, bcVars, tmuxVars, dispVars, ptyVars, tailerVars, writer,
                   lastSent, sentN, decVars, tailVars, rdVars>>

\* The steps the server's own tasks take.
ServerStep(c) ==
    \/ RecvClose(c)
    \/ RecvPing(c)
    \/ RecvAttach(c)
    \/ AwaitReader(c)
    \/ AttachOpenFail(c)
    \/ AttachOpenOk(c)
    \/ AttachReply(c)
    \/ RecvWatch(c)
    \/ RecvUnwatch(c)
    \/ CleanupSession(c)
    \/ RemoveClient(c)
    \/ WriterSend(c)
    \/ WriterClosed(c)
    \/ \E k \in 1..MaxFrames :
          \/ ReaderExit(c, k)
          \/ TailPanePid(c, k)
          \/ TailLocateFail(c, k)
          \/ TailWatchOk(c, k)
          \/ TailRecv(c, k)
          \/ TailForward(c, k)

\* What the peer, the network, the PTY child, tmux and the log file do.
EnvStep(c) ==
    \/ Connect(c)
    \/ \E f \in PeerFrames : PeerSend(c, f)
    \/ WriterSendFail(c)
    \/ \E k \in 1..MaxFrames :
          \/ ChildExit(c, k)
          \/ ReaderOutput(c, k)
          \/ TailPanePidFail(c, k)
          \/ TailFileEvent(c, k)

\* One connection with every command, on its own.
Solo == {"c1"}

ConnNext == Broadcast \/ \E c \in Solo : ServerStep(c) \/ EnvStep(c)

Spec == ConnInit /\ [][ConnNext]_vars

\* The scheduling the runtime guarantees: a task of the server that can take
\* a step eventually takes one.  Nothing is assumed of the peer, the network,
\* the PTY child or the log file.
FairSpec == Spec /\ \A c \in Solo : WF_vars(ServerStep(c))

\* The registry with several connections: each connects, answers pings, is
\* written to, loses its socket and is cleaned up, in any interleaving.
RegFrames == {f \in PeerFrames : f.cmd \in {"ping", "close", "error"}}

RegStep(c) ==
    \/ Connect(c)
    \/ \E f \in RegFrames : PeerSend(c, f)
    \/ RecvClose(c)
    \/ RecvPing(c)
    \/ CleanupSession(c)
    \/ RemoveClient(c)
    \/ WriterSend(c)
    \/ WriterSendFail(c)
    \/ WriterClosed(c)

RegNext == Broadcast \/ \E c \in Clients : RegStep(c)

SpecReg == ConnInit /\ [][RegNext]_vars

(***************************************************************************)
(* ClientManager::broadcast and broadcast_binary, one send at a time       *)
(***************************************************************************)

\* The orders in which the registry map can be iterated.
IterOrders == {<<"c1", "c2">>, <<"c2", "c1">>}

\* The forwarder of main awaits each broadcast before it receives the next
\* message: no broadcast of its own is still sending.
ForwarderAwaits == \A i \in DOMAIN call : call[i].kind = "text" => call[i].pc = "done"

\* A caller enters broadcast ("text", the forwarder) or broadcast_binary
\* ("binary", any other task) and gets the read lock, which is shared.
BcastStart(kind) ==
    /\ Len(call) < MaxCalls
    /\ kind = "text" => ForwarderAwaits
    /\ call' = Append(call, [kind |-> kind,
                             pc |-> IF clients = {} THEN "done" ELSE "sending",
                             snap |-> clients, todo |-> clients, failed |-> {}])
    /\ UNCHANGED <<clients, nBcast, bcLog, iterOrder, tmuxVars, dispVars, ptyVars,
                   tailerVars, outVars, decVars, tailVars, rdVars>>

\* The entry the loop of call i is at.
NextTarget(i) ==
    iterOrder[CHOOSE k \in DOMAIN iterOrder :
                 /\ iterOrder[k] \in call[i].todo
                 /\ \A j \in 1..(k - 1) : iterOrder[j] \notin call[i].todo]

\* Mutant: the loop ends at the first send that fails.
BcastSendBreak(i) ==
    /\ i \in DOMAIN call
    /\ call[i].pc = "sending"
    /\ LET c == NextTarget(i)
           rest == call[i].todo \ {c}
       IN IF writer[c] = "running"
          THEN /\ outq' = [outq EXCEPT ![c] =
                      Append(@, [n |-> enqN[c] + 1, type |-> call[i].kind, src |-> i])]
               /\ enqN' = [enqN EXCEPT ![c] = @ + 1]
               /\ bcLog' = [bcLog EXCEPT ![c] = Append(@, i)]
               /\ call' = [call EXCEPT ![i] =
                      [kind |-> call[i].kind,
                       pc |-> IF rest = {} THEN "done" ELSE "sending",
                       snap |-> call[i].snap, todo |-> rest,
                       failed |-> call[i].failed]]
          ELSE /\ call' = [call EXCEPT ![i] =
                      [kind |-> call[i].kind, pc |-> "done",
                       snap |-> call[i].snap, todo |-> {},
                       failed |-> call[i].failed \cup {c}]]
               /\ UNCHANGED <<outq, enqN, bcLog>>
    /\ UNCHANGED <<clients, nBcast, iterOrder, tmuxVars, dispVars, ptyVars, tailerVars,
                   writer, lastSent, sentN, decVars, tailVars, rdVars>>

\* Mutant: a client whose send fails is dropped from the registry.
BcastSendPruning(i) ==
    /\ i \in DOMAIN call
    /\ call[i].pc = "sending"
    /\ LET c == NextTarget(i)
           rest == call[i].todo \ {c}
           done == [kind |-> call[i].kind,
                    pc |-> IF rest = {} THEN "done" ELSE "sending",
                    snap |-> call[i].snap, todo |-> rest,
                    failed |-> call[i].failed]
       IN IF writer[c] = "running"
          THEN /\ outq' = [outq EXCEPT ![c] =
                      Append(@, [n |-> enqN[c] + 1, type |-> call[i].kind, src |-> i])]
               /\ enqN' = [enqN EXCEPT ![c] = @ + 1]
               /\ bcLog' = [bcLog EXCEPT ![c] = Append(@, i)]
               /\ call' = [call EXCEPT ![i] = done]
               /\ UNCHANGED clients
          ELSE /\ call' = [call EXCEPT ![i] =
                      [done EXCEPT !.failed = call[i].failed \cup {c}]]
               /\ clients' = clients \ {c}
               /\ UNCHANGED <<outq, enqN, bcLog>>
    /\ UNCHANGED <<nBcast, iterOrder, tmuxVars, dispVars, ptyVars, tailerVars,
                   writer, lastSent, sentN, decVars, tailVars, rdVars>>

\* One turn of the loop of call i: tx.send(msg.clone()) to the next entry
\* of the map; a send that fails (the receiver is dropped) is logged and the
\* loop goes on.  The read lock is released after the last entry.
BcastSend(i) ==
    /\ i \in DOMAIN call
    /\ call[i].pc = "sending"
    /\ LET c == NextTarget(i)
           rest == call[i].todo \ {c}
           done == [kind |-> call[i].kind,
                    pc |-> IF rest = {} THEN "done" ELSE "sending",
                    snap |-> call[i].snap, todo |-> rest,
                    failed |-> call[i].failed]
       IN IF writer[c] = "running"
          THEN /\ outq' = [outq EXCEPT ![c] =
                      Append(@, [n |-> enqN[c] + 1, type |-> call[i].kind, src |-> i])]
               /\ enqN' = [enqN EXCEPT ![c] = @ + 1]
               /\ bcLog' = [bcLog EXCEPT ![c] = Append(@, i)]
               /\ call' = [call EXCEPT ![i] = done]
          ELSE /\ call' = [call EXCEPT ![i] =
                      [done EXCEPT !.failed = call[i].failed \cup {c}]]
               /\ UNCHANGED <<outq, enqN, bcLog>>
    /\ UNCHANGED <<clients, nBcast, iterOrder, tmuxVars, dispVars, ptyVars, tailerVars,
                   writer, lastSent, sentN, decVars, tailVars, rdVars>>

\* What a connection does next to the broadcasts: it registers, its socket
\* is written to or fails, it is closed, cleaned up and unregistered.
BcStep(c) ==
    \/ Connect(c)
    \/ \E f \in {g \in PeerFrames : Terminal(g)} : PeerSend(c, f)
    \/ RecvClose(c)
    \/ CleanupSession(c)
    \/ RemoveClient(c)
    \/ WriterSend(c)
    \/ WriterSendFail(c)
    \/ WriterClosed(c)

BcNext ==
    \/ \E kind \in {"text", "binary"} : BcastStart(kind)
    \/ \E i \in 1..MaxCalls : BcastSend(i)
    \/ \E c \in Clients : BcStep(c)

BcInit == ConnStart /\ tmuxSessions = Sessions /\ iterOrder \in IterOrders

SpecBcast == BcInit /\ [][BcNext]_vars

(***************************************************************************)
(* Commands that call the tmux adapter                                     *)
(***************************************************************************)

\* What a call of the tmux adapter can come to: any call can fail (tmux does
\* not run, the command errors), and a call that names a session succeeds
\* only while the session exists.
AdapterOutcomes(cmd, s) ==
    IF cmd = "list-sessions" \/ s \in tmuxSessions THEN {"ok", "err"} ELSE {"err"}

\* The frames of a peer that manages sessions and windows.
CmdFrames ==
    {[cmd |-> x, arg |-> s] :
        x \in {"attach-session", "select-window", "list-windows", "kill-session"},
        s \in Sessions}
    \cup {[cmd |-> x, arg |-> None] :
             x \in {"list-sessions", "input", "resize", "close"}}

\* ListSessions: a failure of list_sessions is replaced by the empty list
\* and the reply is a sessions-list either way.
RecvListSessions(c, res) ==
    /\ Receiving(c, "list-sessions")
    /\ res \in AdapterOutcomes("list-sessions", None)
    /\ Take1(c)
    /\ Enq(c, "sessions-list", 0)
    /\ Return(c)
    /\ cmdRes' = Logged(c, "list-sessions", res = "err", "sessions-list", "na")
    /\ UNCHANGED <<clients, nBcast, bcVars, tmuxSessions, nFrames, ptyVars, tailerVars,
                   writer, lastSent, sentN, decVars, tailVars, rdVars>>

\* ListWindows: windows-list on success, an error message on failure.
RecvListWindows(c, res) ==
    /\ Receiving(c, "list-windows")
    /\ res \in AdapterOutcomes("list-windows", NextFrame(c).arg)
    /\ Take1(c)
    /\ Enq(c, IF res = "ok" THEN "windows-list" ELSE "error", 0)
    /\ Return(c)
    /\ cmdRes' = Logged(c, "list-windows", res = "err",
                        IF res = "ok" THEN "windows-list" ELSE "error", "na")
    /\ UNCHANGED <<clients, nBcast, bcVars, tmuxSessions, nFrames, ptyVars, tailerVars,
                   writer, lastSent, sentN, decVars, tailVars, rdVars>>

\* KillSession: session-killed with success:true, or with success:false and
\* the error.
RecvKillSession(c, res) ==
    /\ Receiving(c, "kill-session")
    /\ res \in AdapterOutcomes("kill-session", NextFrame(c).arg)
    /\ Take1(c)
    /\ tmuxSessions' = IF res = "ok" THEN tmuxSessions \ {NextFrame(c).arg}
                       ELSE tmuxSessions
    /\ Enq(c, "session-killed", 0)
    /\ Return(c)
    /\ cmdRes' = Logged(c, "kill-session", res = "err", "session-killed",
                        IF res = "ok" THEN "true" ELSE "false")
    /\ UNCHANGED <<clients, nBcast, bcVars, nFrames, ptyVars, tailerVars,
                   writer, lastSent, sentN, decVars, tailVars, rdVars>>

\* What writing to, or resizing, the PTY the client holds can come to: with
\* no PTY the command is dropped; the call on the master succeeds while the
\* child lives and can fail once the child is gone.
PtyOutcomes(c) ==
    IF current_pty[c] = 0 THEN {"dropped"}
    ELSE IF child[c][current_pty[c]].st = "alive" THEN {"written"}
    ELSE {"written", "write-failed"}

\* Mutant: an Input that finds no PTY is answered with an error message.
RecvInputNoisy(c, res) ==
    /\ Receiving(c, "input")
    /\ res \in PtyOutcomes(c)
    /\ Take1(c)
    /\ IF res = "dropped" THEN Enq(c, "error", 0) ELSE UNCHANGED <<outq, enqN>>
    /\ Return(c)
    /\ cmdRes' = Logged(c, "input", FALSE, "none", res)
    /\ UNCHANGED <<clients, nBcast, bcVars, tmuxSessions, nFrames, ptyVars, tailerVars,
                   writer, lastSent, sentN, decVars, tailVars, rdVars>>

\* Input: written to the PTY held in current_pty and flushed, ignored when
\* there is none; a failed write or flush returns the error.
RecvInput(c, res) ==
    /\ Receiving(c, "input")
    /\ res \in PtyOutcomes(c)
    /\ Take1(c)
    /\ Return(c)
    /\ cmdRes' = Logged(c, "input", FALSE, "none", res)
    /\ UNCHANGED <<clients, nBcast, bcVars, tmuxSessions, nFrames, ptyVars, tailerVars,
                   outVars, decVars, tailVars, rdVars>>

\* Resize: the master of the PTY held is resized, ignored when there is
\* none; a failed resize returns the error.
RecvResize(c, res) ==
    /\ Receiving(c, "resize")
    /\ res \in PtyOutcomes(c)
    /\ Take1(c)
    /\ Return(c)
    /\ cmdRes' = Logged(c, "resize", FALSE, "none", res)
    /\ UNCHANGED <<clients, nBcast, bcVars, tmuxSessions, nFrames, ptyVars, tailerVars,
                   outVars, decVars, tailVars, rdVars>>

\* SelectWindow: attach at 80x24 first when the client is not on the session
\* named, else go straight to the selection.
RecvSelect(c) ==
    IF inbound[c] # <<>> /\ current_session[c] = NextFrame(c).arg
    THEN /\ Receiving(c, "select-window")
         /\ Take1(c)
         /\ cur' = [cur EXCEPT ![c] = [cmd |-> "select-window",
                                       arg |-> NextFrame(c).arg, old |-> 0]]
         /\ connPc' = [connPc EXCEPT ![c] = "select_window"]
         /\ UNCHANGED <<clients, nBcast, bcVars, tmuxVars, finished, nFrames, ptyVars,
                        tailerVars, outVars, decVars, tailVars, rdVars>>
    ELSE AttachStart(c, "select-window")

\* tmux::select_window returns: window-selected with success:true and the
\* index, or with success:false and the error.
SelectWindowDone(c, res) ==
    /\ connPc[c] = "select_window"
    /\ res \in AdapterOutcomes("select-window", cur[c].arg)
    /\ Enq(c, "window-selected", 0)
    /\ Return(c)
    /\ cmdRes' = Logged(c, "select-window", res = "err", "window-selected",
                        IF res = "ok" THEN "true" ELSE "false")
    /\ UNCHANGED <<clients, nBcast, bcVars, tmuxSessions, inbound, startLog, nFrames, ptyVars,
                   tailerVars, writer, lastSent, sentN, decVars, tailVars, rdVars>>

\* A session is created or ended from outside the server (another terminal).
TmuxOutside(s) ==
    /\ \E c \in Clients : connPc[c] \notin {"none", "done"}
    /\ tmuxSessions' = IF s \in tmuxSessions THEN tmuxSessions \ {s}
                       ELSE tmuxSessions \cup {s}
    /\ UNCHANGED <<clients, nBcast, bcVars, cmdRes, dispVars, ptyVars, tailerVars, outVars,
                   decVars, tailVars, rdVars>>

\* A text frame that serde_json does not decode as a WebSocketMessage.
Malformed == [cmd |-> "malformed", arg |-> None]

\* Mutant: a frame that does not decode ends the inbound loop.
RecvMalformedFatal(c) ==
    /\ Receiving(c, "malformed")
    /\ connPc' = [connPc EXCEPT ![c] = "cleanup"]
    /\ inbound' = [inbound EXCEPT ![c] = RestFrames(c)]
    /\ cmdRes' = Logged(c, "malformed", FALSE, "none", "dropped")
    /\ UNCHANGED <<clients, nBcast, bcVars, tmuxSessions, cur, startLog, finished, nFrames,
                   ptyVars, tailerVars, outVars, decVars, tailVars, rdVars>>

\* The text does not decode: no handler is called and the loop awaits the
\* next frame.
RecvMalformed(c) ==
    /\ Receiving(c, "malformed")
    /\ inbound' = [inbound EXCEPT ![c] = RestFrames(c)]
    /\ cmdRes' = Logged(c, "malformed", FALSE, "none", "dropped")
    /\ UNCHANGED <<clients, nBcast, bcVars, tmuxSessions, connPc, cur, startLog, finished, nFrames,
                   ptyVars, tailerVars, outVars, decVars, tailVars, rdVars>>

CmdStep(c) ==
    \/ Connect(c)
    \/ \E f \in CmdFrames \cup {Malformed} : PeerSend(c, f)
    \/ RecvMalformed(c)
    \/ RecvClose(c)
    \/ RecvAttach(c)
    \/ AwaitReader(c)
    \/ AttachOpenFail(c)
    \/ AttachCreateFail(c)
    \/ AttachOpenOk(c)
    \/ AttachReply(c)
    \/ RecvSelect(c)
    \/ \E res \in {"ok", "err"} :
          \/ RecvListSessions(c, res)
          \/ RecvListWindows(c, res)
          \/ RecvKillSession(c, res)
          \/ SelectWindowDone(c, res)
    \/ \E res \in {"dropped", "written", "write-failed"} :
          \/ RecvInput(c, res)
          \/ RecvResize(c, res)
    \/ CleanupSession(c)
    \/ RemoveClient(c)
    \/ WriterSend(c)
    \/ WriterSendFail(c)
    \/ WriterClosed(c)
    \/ \E k \in 1..MaxFrames :
          \/ ChildExit(c, k)
          \/ ReaderExit(c, k)

CmdNext == (\E s \in Sessions : TmuxOutside(s)) \/ \E c \in Solo : CmdStep(c)

\* One connection managing sessions and windows; no session exists at start.
CmdInit == ConnStart /\ tmuxSessions = {} /\ iterOrder = <<"c1", "c2">>

SpecCmd == CmdInit /\ [][CmdNext]_vars

(***************************************************************************)
(* Claims about the connections                                            *)
(***************************************************************************)
\* C1: once a client has disconnected and its cleanup has finished, the
\* registry holds no send handle under its id, whatever the other clients do.
C1_NoHandleAfterDisconnect ==
    \A c \in Clients : connPc[c] = "done" => c \notin clients

\* A client is gone while another one is still registered.
C1_Witness ==
    \E c, d \in Clients : c # d /\ connPc[c] = "done" /\ d \in clients

Owned(c) ==
    \/ current_pty[c] # 0
    \/ chat_log_handle[c] # 0
    \/ \E k \in DOMAIN child[c] : child[c][k].st # "reaped"
    \/ \E k \in DOMAIN task[c] :
          task[c][k].pc \notin {"done", "cancelled"} /\ ~task[c][k].aborted

\* C2: after the socket has closed, cleanup leaves the client owning nothing:
\* no current PTY, every PTY child killed and waited for, no tailer handle,
\* every tailer task aborted; and the client leaves the registry only after
\* that.
C2_CleanupLeavesNothing ==
    \A c \in Clients :
        /\ connPc[c] \in {"remove", "done"} => ~Owned(c)
        /\ connPc[c] = "done" => c \notin clients
        /\ (connPc[c] # "none" /\ c \notin clients) => ~Owned(c)

\* A client that held a PTY and a tailer when its socket closed is gone.
C2_Witness ==
    \E c \in Clients :
        /\ connPc[c] = "done"
        /\ Len(child[c]) = 1 /\ child[c][1].st = "reaped"
        /\ Len(task[c]) = 1 /\ task[c][1].pc = "cancelled"

\* C3: after the writer's first failed socket send the client's cleanup
\* eventually runs to its end.
C3_WriterFailureLeadsToCleanup ==
    \A c \in Solo : (writer[c] = "failed") ~> (connPc[c] = "done")

\* C4: a client has at most one PTY that is not torn down, the current one;
\* once attach_to_session is past its teardown the reader of every earlier
\* PTY has finished; and a successful attach leaves exactly one.
C4_AtMostOneLivePty ==
    \A c \in Clients :
        /\ \A k \in DOMAIN child[c] : child[c][k].st # "reaped" => k = current_pty[c]
        /\ connPc[c] \in {"recv", "attach_open", "attach_reply"}
              => \A k \in DOMAIN reader[c] : k # current_pty[c] => reader[c][k] = "done"
        /\ connPc[c] = "attach_reply"
              => Cardinality({k \in DOMAIN child[c] : child[c][k].st # "reaped"}) = 1

\* Two AttachSession to the same session have been handled: the first PTY is
\* torn down, the second is live.
C4_Witness ==
    \E c \in Clients :
        /\ connPc[c] = "recv"
        /\ Len(child[c]) = 2
        /\ child[c][1].tmux_session = child[c][2].tmux_session
        /\ child[c][1].st = "reaped"
        /\ child[c][2].st = "alive"
        /\ current_pty[c] = 2

\* C5: once UnwatchChatLog has been handled, no chat-event of the file that
\* was watched reaches the client: the frame written to the socket last is
\* never a chat-event of a tailer unwatched before that write.
C5_NoChatEventAfterUnwatch ==
    \A c \in Clients : \A u \in unwatched[c] :
        ~(/\ lastSent[c].type = "chat-event"
          /\ lastSent[c].src = u.task
          /\ sentN[c] > u.sent)

\* C5 in the reading most favourable to the code: no chat-event of an
\* unwatched tailer that was enqueued after the handler returned reaches the
\* client.
C5_NoChatEventEnqueuedAfterUnwatch ==
    \A c \in Clients : \A u \in unwatched[c] :
        ~(/\ lastSent[c].type = "chat-event"
          /\ lastSent[c].src = u.task
          /\ lastSent[c].n > u.mark)

\* C6: the commands of one client are dispatched in arrival order, and the
\* handler of one has returned before the handler of the next starts: the
\* k-th handler started is that of the k-th frame, and a handler is
\* unfinished exactly while the dispatcher is inside it.
C6_HandlersInOrderNoOverlap ==
    \A c \in Clients :
        /\ \A i \in DOMAIN startLog[c] : startLog[c][i] = i
        /\ finished[c] = Len(startLog[c])
              <=> connPc[c] \notin {"await_reader", "attach_open", "attach_reply",
                                    "select_window"}
        /\ finished[c] \in {Len(startLog[c]) - 1, Len(startLog[c])}

\* A later command has arrived while an attach waits for the old reader.
C6_Witness ==
    \E c \in Clients :
        /\ connPc[c] = "await_reader"
        /\ inbound[c] # <<>>
        /\ Len(startLog[c]) = 2

\* C7: while the writer runs, frames leave the socket in the order they were
\* enqueued, none skipped or duplicated: the n-th frame written is the n-th
\* frame enqueued and the queue holds the following ones in order.
C7_OutboundFifo ==
    \A c \in Clients : writer[c] = "running" =>
        /\ lastSent[c].n = sentN[c]
        /\ \A j \in DOMAIN outq[c] : outq[c][j].n = sentN[c] + j
        /\ sentN[c] + Len(outq[c]) = enqN[c]

\* Frames of two producers wait in the queue behind a frame already written.
C7_Witness ==
    \E c \in Clients :
        /\ writer[c] = "running"
        /\ sentN[c] >= 1
        /\ Len(outq[c]) >= 2
        /\ outq[c][1].type # outq[c][2].type

\* C15: taking the PtySession away from a client, at disconnect or when an
\* attach replaces it, reaps the PTY child and ends no tmux session: every
\* session that existed before the step exists after it.
C15_TeardownKeepsSession ==
    [][\A c \in Clients :
          (current_pty[c] # 0 /\ current_pty'[c] = 0) =>
              /\ tmuxSessions' = tmuxSessions
              /\ child'[c][current_pty[c]].st = "reaped"]_vars

\* A client that attached and then disconnected: its child is reaped and the
\* session it was attached to is still there.
C15_Witness ==
    \E c \in Clients :
        /\ connPc[c] = "remove"
        /\ Len(startLog[c]) = 1
        /\ Len(child[c]) = 1
        /\ child[c][1].st = "reaped"
        /\ child[c][1].tmux_session \in tmuxSessions

\* C16: once the reader task of a PtySession has ended and the client has
\* been sent its disconnected message, the client no longer holds that
\* PtySession (it is back at "no pty").
C16_PtyTornDownAfterExit ==
    \A c \in Clients : \A k \in DOMAIN reader[c] :
        (reader[c][k] = "done" /\ lastSent[c].type = "disconnected"
            /\ lastSent[c].src = k)
                => current_pty[c] # k

\* C17: every SelectWindow handled while the client's queue is open has put
\* exactly one window-selected reply on it.
C17_SelectWindowAlwaysReplies ==
    \A c \in Clients : \A i \in DOMAIN cmdRes[c] :
        (cmdRes[c][i].cmd = "select-window" /\ cmdRes[c][i].open)
            => cmdRes[c][i].reply = "window-selected"

\* C18: every command whose adapter call failed while the client's queue was
\* open was answered by a reply that tells the failure: one that carries
\* success:false, or an error message.
C18_AdapterFailureSurfaced ==
    \A c \in Clients : \A i \in DOMAIN cmdRes[c] :
        (cmdRes[c][i].failed /\ cmdRes[c][i].open)
            => (cmdRes[c][i].success = "false" \/ cmdRes[c][i].reply = "error")

\* C19: the handler of an UnwatchChatLog that finds no tailer handle puts
\* nothing on the client's queue and leaves the PTY, the current session,
\* the tailer handle and every tailer task as they are.
C19_UnwatchIdleIsNoOp ==
    [][\A c \in Clients :
          (Receiving(c, "unwatch-chat-log") /\ chat_log_handle[c] = 0
              /\ startLog'[c] # startLog[c])
                  => /\ outq' = outq /\ enqN' = enqN
                     /\ current_pty' = current_pty /\ child' = child
                     /\ reader' = reader
                     /\ current_session' = current_session
                     /\ chat_log_handle' = chat_log_handle /\ task' = task]_vars

\* An UnwatchChatLog was the first command of a client that watches nothing:
\* it is handled and has left no trace.
C19_Witness ==
    \E c \in Clients :
        /\ finished[c] = 1
        /\ writer[c] = "running"
        /\ enqN[c] = 0
        /\ current_session[c] = None
        /\ task[c] = <<>>

\* The clients on whose queue the payload of call i was put.
Delivered(i) == {c \in Clients : \E k \in DOMAIN bcLog[c] : bcLog[c][k] = i}

\* C12: a call of broadcast puts its payload at most once on a queue; a send
\* fails only on a queue whose receiver is gone; and when the call returns,
\* every client registered at the call has either got the payload or had
\* its send fail, whatever happened to the sends before it.
C12_OneCopyToEveryOpenQueue ==
    \A i \in DOMAIN call :
        /\ \A c \in Clients : \A k, l \in DOMAIN bcLog[c] :
               (bcLog[c][k] = i /\ bcLog[c][l] = i) => k = l
        /\ \A c \in call[i].failed : writer[c] # "running"
        /\ Delivered(i) \cap call[i].failed = {}
        /\ call[i].pc = "done" => Delivered(i) \cup call[i].failed = call[i].snap

\* The first send of a call failed and the client after it got the payload.
C12_Witness ==
    \E i \in DOMAIN call :
        /\ call[i].pc = "done"
        /\ call[i].failed = {iterOrder[1]}
        /\ Delivered(i) = {iterOrder[2]}

\* C13: a step of broadcast or broadcast_binary leaves the registry as it
\* is, and the registry changes only by add_client adding the connecting
\* client or remove_client removing the one that disconnects.
C13_BroadcastKeepsRegistry ==
    [][/\ call' # call => clients' = clients
       /\ clients' # clients =>
             \E c \in Clients :
                 \/ connPc[c] = "none" /\ clients' = clients \cup {c}
                 \/ connPc[c] = "remove" /\ clients' = clients \ {c}]_vars

\* A call has returned after a failed send and the client it failed for is
\* still registered.
C13_Witness ==
    \E i \in DOMAIN call :
        /\ call[i].pc = "done"
        /\ call[i].failed # {}
        /\ call[i].failed \subseteq clients

\* The place of call i in the broadcasts client c got.
PosIn(c, i) == CHOOSE k \in DOMAIN bcLog[c] : bcLog[c][k] = i

\* C14: two clients that both got two broadcasts got them in the same order.
C14_SameOrderAtEveryClient ==
    \A c, e \in Clients : \A i, j \in DOMAIN call :
        ({c, e} \subseteq Delivered(i) \cap Delivered(j))
            => (PosIn(c, i) < PosIn(c, j) <=> PosIn(e, i) < PosIn(e, j))

\* C24: once an Input has failed to write to the PTY, the client no longer
\* holds that PTY: no later Input is handled with it.
C24_FailedInputEndsPty ==
    \A c \in Clients : \A i, j \in DOMAIN cmdRes[c] :
        (i < j /\ cmdRes[c][i].cmd = "input" /\ cmdRes[c][i].success = "write-failed"
            /\ cmdRes[c][j].cmd = "input")
                => cmdRes[c][j].pty # cmdRes[c][i].pty

\* C26: the handler of an Input or a Resize that finds no PTY writes and
\* resizes nothing, puts nothing on the client's queue and leaves the PTY,
\* the current session and the tailer as they are.
C26_NoPtyInputDropped ==
    [][\A c \in Clients :
          (current_pty[c] = 0 /\ startLog'[c] # startLog[c]
              /\ (Receiving(c, "input") \/ Receiving(c, "resize")))
                  => /\ cmdRes'[c][Len(cmdRes'[c])].success = "dropped"
                     /\ outq' = outq /\ enqN' = enqN
                     /\ current_pty' = current_pty /\ child' = child
                     /\ reader' = reader
                     /\ current_session' = current_session
                     /\ chat_log_handle' = chat_log_handle /\ task' = task]_vars

\* A client without a PTY has had an Input and a Resize handled, both
\* dropped, and its queue is open and has never held a frame.
C26_Witness ==
    \E c \in Clients :
        /\ writer[c] = "running"
        /\ enqN[c] = 0
        /\ Len(cmdRes[c]) = 2
        /\ {cmdRes[c][1].cmd, cmdRes[c][2].cmd} = {"input", "resize"}
        /\ \A i \in 1..2 : cmdRes[c][i].success = "dropped"

RECURSIVE Flatten(_)
Flatten(ss) == IF ss = <<>> THEN <<>> ELSE Head(ss) \o Flatten(Tail(ss))

\* C27: once watch_log_file has sent its History, that History is the first
\* and the only one; every later event is a NewMessage that carries one
\* message; the lines parsed so far are the file up to the saved offset, cut
\* in file order, and each message parsed from them has been sent once.
C27_HistoryThenNewMessages ==
    tailPc \in {"setup", "watching"} =>
        /\ event_tx # <<>>
        /\ event_tx[1].type = "History"
        /\ \A i \in 2..Len(event_tx) :
              /\ event_tx[i].type = "NewMessage"
              /\ Len(event_tx[i].messages) = 1
        /\ Flatten(parsed) = Take(file, pos)
        /\ EmittedCount(event_tx) = Len(Messages(parsed))

\* Two messages of one burst have been sent after the History.
C27_Witness ==
    /\ tailPc = "watching"
    /\ Len(event_tx) >= 3
    /\ event_tx[1].type = "History"
    /\ Len(parsed) = 2

\* The newline-terminated lines of f that parse to a message.
TerminatedRecords(f) ==
    Cardinality({i \in DOMAIN ReadLines(f, 0) :
                   /\ Last(ReadLines(f, 0)[i]) = NL
                   /\ parse_line(ReadLines(f, 0)[i]) # None})
NewCount(evs) == Cardinality({i \in DOMAIN evs : evs[i].type = "NewMessage"})

\* C28: when the watch is established on an empty file, so that every line
\* of the file is appended after it, the NewMessage events catch up with the
\* newline-terminated parseable lines of the file again and again: k such
\* lines in the file lead to k NewMessage events.
C28_AppendedLinesEmitted ==
    []<>((tailPc = "watching" /\ watchLen = 0)
            => NewCount(event_tx) >= TerminatedRecords(file))

\* C29: the saved offset never decreases, and a burst that finds the file
\* shorter than the saved offset sends no event and keeps the offset.
C29_OffsetNeverDecreases ==
    [][/\ pos' >= pos
       /\ (innerPc = "read" /\ innerPc' = "recv" /\ Len(file) < pos)
              => (event_tx' = event_tx /\ pos' = pos)]_vars

\* A burst has read the file after it was cut below the saved offset, with
\* nothing changed since.
C29_Witness ==
    /\ tailPc = "watching"
    /\ innerPc = "recv"
    /\ notify_rx = 0
    /\ pos > Len(file)
    /\ Len(event_tx) >= 2

ChatFrames == {"chat-history", "chat-event", "chat-log-error"}

\* C30: once a WatchChatLog has replaced the tailer of a client, nothing of
\* a replaced tailer is put on the client's queue: every chat-history,
\* chat-event or chat-log-error enqueued while the client holds a tailer
\* comes from the tailer it holds.
C30_NoFrameOfReplacedTailer ==
    [][\A c \in Clients :
          (/\ enqN'[c] = enqN[c] + 1
           /\ chat_log_handle[c] # 0
           /\ chat_log_handle'[c] = chat_log_handle[c]
           /\ Last(outq'[c]).type \in ChatFrames)
              => Last(outq'[c]).src = chat_log_handle[c]]_vars

\* The chat frames of tailer k of client c waiting on the client's queue.
QueuedOf(c, k) ==
    {i \in DOMAIN outq[c] : outq[c][i].type \in ChatFrames /\ outq[c][i].src = k}

ReturnedErr(c) ==
    /\ Len(cmdRes'[c]) = Len(cmdRes[c]) + 1
    /\ \/ Last(cmdRes'[c]).failed /\ Last(cmdRes'[c]).cmd = "attach-session"
       \/ Last(cmdRes'[c]).success = "write-failed"

\* C32: the inbound loop is left only on a Close frame, a receive error or
\* the end of the stream; a text frame that does not decode is dropped and
\* changes nothing of the client; a handler that returns an error leaves
\* the dispatcher awaiting the next frame.
C32_NoTextFrameEndsConnection ==
    [][\A c \in Clients :
          /\ (connPc[c] # "cleanup" /\ connPc'[c] = "cleanup") =>
                (connPc[c] = "recv" /\ inbound[c] # <<>> /\ Terminal(NextFrame(c)))
          /\ (Receiving(c, "malformed") /\ inbound'[c] # inbound[c]
                 /\ Len(inbound'[c]) < Len(inbound[c])) =>
                /\ connPc'[c] = "recv"
                /\ UNCHANGED <<clients, startLog, finished, ptyVars, tailerVars, outVars,
                               tmuxSessions>>
          /\ ReturnedErr(c) => connPc'[c] = "recv"]_vars

\* A connection has dropped a frame that does not decode, has had a handler
\* return an error, and awaits its next frame.
C32_Witness ==
    \E c \in Clients :
        /\ connPc[c] = "recv"
        /\ \E i, j \in DOMAIN cmdRes[c] :
              /\ cmdRes[c][i].cmd = "malformed"
              /\ cmdRes[c][j].cmd = "attach-session" /\ cmdRes[c][j].failed

\* Every task client c owned has ended.
TasksEnded(c) ==
    /\ \A k \in DOMAIN task[c] : task[c][k].pc \in {"done", "cancelled"}
    /\ \A k \in DOMAIN reader[c] : reader[c][k] = "done"
    /\ writer[c] # "running"

\* C33: once handle_socket has returned for a client, its tailer tasks, its
\* PTY readers and its writer task all eventually end.
C33_TasksEndAfterDisconnect ==
    \A c \in Solo : (connPc[c] = "done") ~> TasksEnded(c)

\* A client that had a PTY and a tailer has disconnected and all its tasks
\* have ended, the writer by the drop of the last send handle.
C33_Witness ==
    \E c \in Solo :
        /\ connPc[c] = "done"
        /\ TasksEnded(c)
        /\ Len(reader[c]) >= 1 /\ Len(task[c]) >= 1
        /\ writer[c] = "closed"

\* Whether s is the beginning of one multi-byte code unit that lacks at
\* least one byte.
UnfinishedPrefix(s) ==
    /\ s # <<>>
    /\ Utf8CharWidth(s[1]) >= 2
    /\ Len(s) < Utf8CharWidth(s[1])
    /\ Len(s) >= 2 => SecondOk(s[1], s[2])
    /\ \A k \in 3..Len(s) : IsCont(s[k])

\* C34: after every decode_chunk call the carryover is at most 4 bytes long
\* and is empty or the beginning of one unfinished multi-byte code unit.
C34_CarryoverIsUnfinishedPrefix ==
    decChunks > 0 =>
        /\ Len(incomplete) <= 4
        /\ incomplete = <<>> \/ UnfinishedPrefix(incomplete)

\* C36: between two commands, a client that remembers a current session
\* holds a PTY, and that PTY is attached to the session remembered.
C36_SessionNameMatchesPty ==
    \A c \in Clients :
        (connPc[c] = "recv" /\ current_session[c] # None) =>
            /\ current_pty[c] # 0
            /\ child[c][current_pty[c]].tmux_session = current_session[c]

\* C37: every Output and Disconnected put on a client's queue comes from the
\* PTY opened last, so that once a new PTY is open, and hence before its
\* attached reply, the old one is silent; and the wait for the old reader
\* always ends.
C37_OldPtySilentBeforeNewOpens ==
    /\ [][\A c \in Clients :
             (/\ enqN'[c] = enqN[c] + 1
              /\ Last(outq'[c]).type \in {"output", "disconnected"})
                 => Last(outq'[c]).src = Len(reader[c])]_vars
    /\ \A c \in Solo : (connPc[c] = "await_reader") ~> (connPc[c] # "await_reader")

\* A second PTY has replaced the first, whose reader has finished, and the
\* second attached reply was written after the old PTY's Disconnected.
C37_Witness ==
    \E c \in Solo :
        /\ Len(reader[c]) = 2
        /\ reader[c][1] = "done"
        /\ current_pty[c] = 2
        /\ lastSent[c].type = "attached"
        /\ sentN[c] >= 3

\* The data of the Output messages of a queue, concatenated in order.
RECURSIVE OutputData(_)
OutputData(ms) ==
    IF ms = <<>> THEN <<>>
    ELSE (IF Head(ms).type = "output" THEN Head(ms).data ELSE <<>>) \o OutputData(Tail(ms))

C40_InnerTaskEndsWithHandle ==
    /\ [][tailPc = "aborted" => notify_rx' <= notify_rx]_vars
    /\ (tailPc = "aborted") ~> (innerPc = "exited")

\* The tailer has emitted a NewMessage, its handle was aborted and the burst
\* task has left its loop.
C40_Witness ==
    /\ tailPc = "aborted"
    /\ innerPc = "exited"
    /\ Len(event_tx) >= 2

====
